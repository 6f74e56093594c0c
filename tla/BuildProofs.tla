------------------------------ MODULE BuildProofs ------------------------------
(***************************************************************************)
(* The way of a device model into the firmware, for every set of models    *)
(* and of CSV files: the generated tables agree with each other, a build   *)
(* never uses old ones, and the streamer feeds every register its own      *)
(* samples.                                                                *)
(***************************************************************************)
EXTENDS FirmwareBuild, SequenceTheorems, FiniteSetTheorems, TLAPS

-------------------------------------------------------------------------------
(* Sets sorted by address. *)
Sortable(S) ==
  /\ IsFiniteSet(S)
  /\ \A x \in S : x.addr \in Int
  /\ \A x, y \in S : x.addr = y.addr => x = y

InOrder(q, n) == \A i, j \in 1 .. n : i < j => q[i].addr < q[j].addr

Below(S, x) == {y \in S : y.addr <= x.addr}

(* The elements with a smaller address are fewer. *)
LEMMA BelowGrows ==
  ASSUME NEW S, Sortable(S), NEW x \in S, NEW y \in S
  PROVE  /\ Cardinality(Below(S, x)) \in 1 .. Cardinality(S)
         /\ x.addr <= y.addr => Cardinality(Below(S, x)) <= Cardinality(Below(S, y))
         /\ x.addr < y.addr => Cardinality(Below(S, x)) < Cardinality(Below(S, y))
<1>1. /\ IsFiniteSet(S) /\ Cardinality(S) \in Nat
      /\ \A z \in S : z.addr \in Int
  BY FS_CardinalityType DEF Sortable
<1>2. ASSUME NEW z \in S
      PROVE  /\ IsFiniteSet(Below(S, z)) /\ Cardinality(Below(S, z)) \in Nat
             /\ Cardinality(Below(S, z)) <= Cardinality(S)
  <2>1. Below(S, z) \in SUBSET S
    BY DEF Below
  <2> QED
    BY <1>1, <2>1, FS_Subset, FS_CardinalityType
<1>3. Cardinality(Below(S, x)) # 0
  <2>1. x \in Below(S, x)
    BY <1>1 DEF Below
  <2> QED
    BY <1>2, <2>1, FS_EmptySet
<1>4. ASSUME x.addr <= y.addr
      PROVE  Below(S, x) \in SUBSET Below(S, y)
  BY <1>1, <1>4 DEF Below
<1>5. ASSUME x.addr <= y.addr
      PROVE  Cardinality(Below(S, x)) <= Cardinality(Below(S, y))
  BY <1>2, <1>4, <1>5, FS_Subset
<1>6. ASSUME x.addr < y.addr
      PROVE  Cardinality(Below(S, x)) < Cardinality(Below(S, y))
  <2>1. x.addr <= y.addr /\ ~(y.addr <= x.addr)
    BY <1>1, <1>6
  <2>2. y \in Below(S, y) /\ y \notin Below(S, x)
    BY <1>1, <2>1 DEF Below
  <2>3. Cardinality(Below(S, x)) # Cardinality(Below(S, y))
    BY <1>2, <1>4, <2>1, <2>2, FS_Subset
  <2> QED
    BY <1>2, <1>5, <2>1, <2>3
<1> QED
  BY <1>1, <1>2, <1>3, <1>5, <1>6

LEMMA SortedExists ==
  ASSUME NEW S, Sortable(S)
  PROVE  \E q \in [1 .. Cardinality(S) -> S] : InOrder(q, Cardinality(S))
<1> DEFINE n == Cardinality(S)
           r == [x \in S |-> Cardinality(Below(S, x))]
<1>1. n \in Nat /\ IsFiniteSet(1 .. n) /\ Cardinality(1 .. n) = n
  <2>1. n \in Nat
    BY FS_CardinalityType DEF Sortable
  <2> HIDE DEF n
  <2>2. 1 \in Int /\ n \in Int /\ (IF 1 > n THEN 0 ELSE n - 1 + 1) = n
    BY <2>1
  <2> QED
    BY <2>1, <2>2, FS_Interval
<1>2. r \in [S -> 1 .. n]
  BY BelowGrows
<1>3. ASSUME NEW x \in S, NEW y \in S
      PROVE  /\ r[x] = r[y] => x = y
             /\ r[x] < r[y] => x.addr < y.addr
  <2>1. x.addr \in Int /\ y.addr \in Int /\ (x.addr = y.addr => x = y)
    BY DEF Sortable
  <2>2. r[x] \in 1 .. n /\ r[y] \in 1 .. n
    BY <1>2
  <2>3. x.addr < y.addr => r[x] < r[y]
    BY BelowGrows
  <2>4. y.addr < x.addr => r[y] < r[x]
    BY BelowGrows
  <2>5. y.addr <= x.addr => r[y] <= r[x]
    BY BelowGrows
  <2> HIDE DEF r, n
  <2> QED
    BY <1>1, <2>1, <2>2, <2>3, <2>4, <2>5
<1> HIDE DEF r
<1>4. r \in Injection(S, 1 .. n)
  BY <1>2, <1>3 DEF Injection, IsInjective
<1>5. r \in Surjection(S, 1 .. n)
  BY <1>1, <1>4, FS_Injection
<1>6. \A i \in 1 .. n : \E x \in S : r[x] = i
  BY <1>5 DEF Surjection
<1> DEFINE q == [i \in 1 .. n |-> CHOOSE x \in S : r[x] = i]
<1>7. \A i \in 1 .. n : q[i] \in S /\ r[q[i]] = i
  BY <1>6
<1>8. q \in [1 .. n -> S]
  BY <1>7
<1>9. InOrder(q, n)
  <2> HIDE DEF q
  <2> QED
    BY <1>3, <1>7 DEF InOrder
<1> QED
  BY <1>8, <1>9

(* ByAddr lists all elements of a set, each once, by their addresses. *)
LEMMA ByAddrSorts ==
  ASSUME NEW S, Sortable(S)
  PROVE  /\ Cardinality(S) \in Nat
         /\ ByAddr(S) \in [1 .. Cardinality(S) -> S]
         /\ InOrder(ByAddr(S), Cardinality(S))
         /\ \A x \in S : \E i \in 1 .. Cardinality(S) : ByAddr(S)[i] = x
<1> DEFINE n == Cardinality(S)
           q == ByAddr(S)
<1>1. n \in Nat /\ IsFiniteSet(S) /\ IsFiniteSet(1 .. n) /\ Cardinality(1 .. n) = n
  <2>1. n \in Nat /\ IsFiniteSet(S)
    BY FS_CardinalityType DEF Sortable
  <2> HIDE DEF n
  <2>2. 1 \in Int /\ n \in Int /\ (IF 1 > n THEN 0 ELSE n - 1 + 1) = n
    BY <2>1
  <2> QED
    BY <2>1, <2>2, FS_Interval
<1>2. q \in [1 .. n -> S] /\ InOrder(q, n)
  <2>1. \E p \in [1 .. n -> S] : \A i, j \in DOMAIN p : i < j => p[i].addr < p[j].addr
    BY SortedExists DEF InOrder
  <2>2. q \in [1 .. n -> S] /\ \A i, j \in DOMAIN q : i < j => q[i].addr < q[j].addr
    BY <2>1 DEF ByAddr
  <2> HIDE DEF q
  <2> QED
    BY <2>2 DEF InOrder
<1> HIDE DEF q
<1>3. q \in Injection(1 .. n, S)
  <2>1. \A i \in 1 .. n : q[i] \in S /\ q[i].addr \in Int
    BY <1>2 DEF Sortable
  <2>2. ASSUME NEW i \in 1 .. n, NEW j \in 1 .. n, q[i] = q[j]
        PROVE  i = j
    <3>1. ~(i < j) /\ ~(j < i)
      BY <1>2, <2>1, <2>2 DEF InOrder
    <3> HIDE DEF n
    <3> QED
      BY <1>1, <3>1
  <2> QED
    BY <1>2, <2>2 DEF Injection, IsInjective
<1>4. q \in Surjection(1 .. n, S)
  BY <1>1, <1>3, FS_Injection
<1> QED
  BY <1>1, <1>2, <1>4 DEF Surjection, q

-------------------------------------------------------------------------------
(* The registers of a model that passes validate. *)
LEMMA ValidRegisters ==
  ASSUME NEW m \in Models, Valid(m)
  PROVE  /\ IsFiniteSet(ToSet(m.registers))
         /\ \A r \in ToSet(m.registers) : r \in RegisterDef /\ r.addr \in Addr
         /\ \A r, t \in ToSet(m.registers) : r.addr = t.addr => r = t
<1> DEFINE regs == m.registers
<1>1. regs \in Seq(RegisterDef)
  BY BuildAssumption DEF Valid
<1>2. Len(regs) \in Nat /\ DOMAIN regs = 1 .. Len(regs) /\ \A i \in 1 .. Len(regs) : regs[i] \in RegisterDef
  BY <1>1, LenProperties, ElementOfSeq
<1>3. \A i \in 1 .. Len(regs) :
        /\ regs[i].addr < AddressSpace
        /\ \A j \in 1 .. i - 1 : regs[j].addr # regs[i].addr
  BY <1>2 DEF Valid
<1>4. ToSet(regs) = {regs[i] : i \in 1 .. Len(regs)}
  BY <1>2 DEF ToSet
<1> HIDE DEF regs
<1>5. IsFiniteSet(ToSet(regs))
  <2>1. regs \in Surjection(1 .. Len(regs), ToSet(regs))
    <3>1. regs \in [1 .. Len(regs) -> ToSet(regs)]
      BY <1>1, <1>2, <1>4
    <3> QED
      BY <1>4, <3>1 DEF Surjection
  <2>2. IsFiniteSet(1 .. Len(regs))
    BY <1>2, FS_Interval
  <2> QED
    BY <2>1, <2>2, FS_Surjection
<1>6. \A r \in ToSet(regs) : r \in RegisterDef /\ r.addr \in Addr
  <2> SUFFICES ASSUME NEW i \in 1 .. Len(regs)
               PROVE  regs[i] \in RegisterDef /\ regs[i].addr \in Addr
    BY <1>4
  <2> QED
    BY <1>2, <1>3, TablesAssumption DEF RegisterDef, Addr
<1>7. \A r, t \in ToSet(regs) : r.addr = t.addr => r = t
  <2> SUFFICES ASSUME NEW i \in 1 .. Len(regs), NEW j \in 1 .. Len(regs), regs[i].addr = regs[j].addr
               PROVE  i = j
    BY <1>4
  <2>1. ~(i < j) /\ ~(j < i)
    <3>1. i < j => i \in 1 .. j - 1
      BY <1>2
    <3>2. j < i => j \in 1 .. i - 1
      BY <1>2
    <3> QED
      BY <1>3, <3>1, <3>2
  <2> QED
    BY <1>2, <2>1
<1> QED
  BY <1>5, <1>6, <1>7 DEF regs

(* A function on a finite set with different addresses for its values. *)
LEMMA ImageSortable ==
  ASSUME NEW S, IsFiniteSet(S), NEW T, NEW f \in [S -> T],
         \A x \in S : f[x].addr \in Int,
         \A x, y \in S : f[x].addr = f[y].addr => f[x] = f[y],
         T = {f[x] : x \in S}
  PROVE  Sortable(T) /\ Cardinality(T) <= Cardinality(S)
<1>1. f \in Surjection(S, T)
  BY DEF Surjection
<1>2. IsFiniteSet(T) /\ Cardinality(T) <= Cardinality(S)
  BY <1>1, FS_Surjection
<1> QED
  BY <1>2 DEF Sortable

(* The specifications of the CSV registers. *)
SpecSet(m, f) == {CsvSpec(r, f) : r \in CsvRegisters(m)}

LEMMA CsvRegistersOf ==
  ASSUME NEW m \in Models, Valid(m)
  PROVE  /\ IsFiniteSet(CsvRegisters(m)) /\ CsvRegisters(m) \subseteq ToSet(m.registers)
         /\ HostRegisters(m) = {r \in CsvRegisters(m) : r.csv.mode = "HostStream"}
         /\ IsFiniteSet(HostRegisters(m)) /\ Cardinality(HostRegisters(m)) <= MaxHostStreams
         /\ \A r \in CsvRegisters(m) :
              /\ r \in ToSet(m.registers) /\ r.addr \in Addr /\ r.access = "Ro"
              /\ r.csv.path \in CsvPaths(m)
              /\ r.csv.mode \in {"Embedded", "HostStream"}
         /\ \A r, t \in CsvRegisters(m) : r.addr = t.addr => r = t
<1>1. CsvRegisters(m) \in SUBSET ToSet(m.registers) /\ HostRegisters(m) \in SUBSET ToSet(m.registers)
  BY DEF CsvRegisters, HostRegisters
<1>2. IsFiniteSet(CsvRegisters(m)) /\ IsFiniteSet(HostRegisters(m))
  BY <1>1, ValidRegisters, FS_Subset
<1>3. ASSUME NEW r \in CsvRegisters(m)
      PROVE  r.csv.mode \in {"Embedded", "HostStream"}
  <2>1. r \in RegisterDef /\ r.csv # NoCsv
    BY ValidRegisters DEF CsvRegisters
  <2> QED
    BY <2>1 DEF RegisterDef
<1>4. \A r \in CsvRegisters(m) : r.access = "Ro" /\ r.csv.path \in CsvPaths(m)
  BY DEF Valid, CsvPaths
<1>5. Cardinality(HostRegisters(m)) <= MaxHostStreams
  BY DEF Valid
<1> QED
  BY <1>1, <1>2, <1>3, <1>4, <1>5, ValidRegisters DEF HostRegisters

LEMMA SpecOf ==
  ASSUME NEW r, NEW f
  PROVE  /\ CsvSpec(r, f).addr = r.addr
         /\ CsvSpec(r, f).mode = r.csv.mode
         /\ r.csv.mode = "Embedded" => CsvSpec(r, f).data = Samples(f[r.csv.path])
BY DEF CsvSpec

LEMMA SpecSetSortable ==
  ASSUME NEW m \in Models, Valid(m), NEW f
  PROVE  /\ Sortable(SpecSet(m, f))
         /\ \A x \in SpecSet(m, f) : \E r \in CsvRegisters(m) :
              x = CsvSpec(r, f) /\ x.addr = r.addr /\ x.mode = r.csv.mode
         /\ \A r \in CsvRegisters(m) : CsvSpec(r, f) \in SpecSet(m, f)
<1> DEFINE S == CsvRegisters(m)
           T == SpecSet(m, f)
           g == [r \in S |-> CsvSpec(r, f)]
<1>1. g \in [S -> T] /\ T = {g[x] : x \in S}
  BY DEF SpecSet
<1>2. \A x \in S : g[x].addr = x.addr
  BY SpecOf
<1>3. IsFiniteSet(S) /\ \A x \in S : x.addr \in Int
  BY CsvRegistersOf, TablesAssumption DEF Addr
<1>4. \A x, y \in S : x.addr = y.addr => x = y
  BY CsvRegistersOf
<1>5. Sortable(T)
  <2> HIDE DEF S, T, g
  <2>1. \A x \in S : g[x].addr \in Int
    BY <1>2, <1>3
  <2>2. \A x, y \in S : g[x].addr = g[y].addr => g[x] = g[y]
    BY <1>2, <1>4
  <2> QED
    BY <1>1, <1>3, <2>1, <2>2, ImageSortable
<1> QED
  BY <1>5, SpecOf DEF SpecSet

(* The specifications in the order of their addresses. *)
LEMMA SpecsSorted ==
  ASSUME NEW m \in Models, Valid(m), NEW f
  PROVE  LET specs == CsvSpecs(m, f)
             n == Cardinality(SpecSet(m, f))
         IN /\ n \in Nat /\ specs \in [1 .. n -> SpecSet(m, f)] /\ InOrder(specs, n)
            /\ \A r \in CsvRegisters(m) : \E i \in 1 .. n : specs[i] = CsvSpec(r, f)
<1>1. CsvSpecs(m, f) = ByAddr(SpecSet(m, f))
  BY DEF CsvSpecs, SpecSet
<1> QED
  BY <1>1, SpecSetSortable, ByAddrSorts

(* The specifications of the host streams. *)
HostSet(m, f) == {x \in SpecSet(m, f) : x.mode = "HostStream"}

LEMMA HostsSorted ==
  ASSUME NEW m \in Models, Valid(m), NEW f
  PROVE  LET hosts == HostSpecs(CsvSpecs(m, f))
             n == Cardinality(HostSet(m, f))
         IN /\ n \in 0 .. MaxHostStreams /\ hosts \in [1 .. n -> HostSet(m, f)] /\ InOrder(hosts, n)
            /\ \A r \in HostRegisters(m) : \E i \in 1 .. n : hosts[i] = CsvSpec(r, f)
            /\ \A i \in 1 .. n : \E r \in HostRegisters(m) : hosts[i] = CsvSpec(r, f) /\ hosts[i].addr = r.addr
<1> DEFINE specs == CsvSpecs(m, f)
           k == Cardinality(SpecSet(m, f))
           n == Cardinality(HostSet(m, f))
           g == [r \in HostRegisters(m) |-> CsvSpec(r, f)]
<1>1. ToSet(specs) = SpecSet(m, f)
  <2>1. /\ specs \in [1 .. k -> SpecSet(m, f)]
        /\ \A r \in CsvRegisters(m) : \E i \in 1 .. k : specs[i] = CsvSpec(r, f)
    BY SpecsSorted
  <2> HIDE DEF specs, k
  <2>2. ToSet(specs) \subseteq SpecSet(m, f)
    BY <2>1 DEF ToSet
  <2>3. SpecSet(m, f) \subseteq ToSet(specs)
    BY <2>1 DEF ToSet, SpecSet
  <2> QED
    BY <2>2, <2>3
<1>2. HostSpecs(specs) = ByAddr(HostSet(m, f))
  <2>1. {x \in ToSet(specs) : x.mode = "HostStream"} = HostSet(m, f)
    BY <1>1 DEF HostSet
  <2> QED
    BY <2>1 DEF HostSpecs
<1>3. \A x \in HostSet(m, f) : \E r \in HostRegisters(m) : x = CsvSpec(r, f) /\ x.addr = r.addr
  BY SpecSetSortable, CsvRegistersOf DEF HostSet
<1>4. \A r \in HostRegisters(m) : CsvSpec(r, f) \in HostSet(m, f)
  BY SpecOf, CsvRegistersOf DEF HostSet, SpecSet
<1>5. Sortable(HostSet(m, f)) /\ n <= Cardinality(HostRegisters(m))
  <2>1. g \in [HostRegisters(m) -> HostSet(m, f)]
    BY <1>4
  <2>2. HostSet(m, f) = {g[x] : x \in HostRegisters(m)}
    BY <1>3, <1>4
  <2>3. \A x \in HostRegisters(m) : g[x].addr = x.addr
    BY SpecOf
  <2>4. /\ IsFiniteSet(HostRegisters(m))
        /\ \A x \in HostRegisters(m) : x.addr \in Int
        /\ \A x, y \in HostRegisters(m) : x.addr = y.addr => x = y
    BY CsvRegistersOf, TablesAssumption DEF Addr
  <2> HIDE DEF g
  <2>5. /\ \A x \in HostRegisters(m) : g[x].addr \in Int
        /\ \A x, y \in HostRegisters(m) : g[x].addr = g[y].addr => g[x] = g[y]
    BY <2>3, <2>4
  <2> QED
    BY <2>1, <2>2, <2>4, <2>5, ImageSortable
<1>6. n \in 0 .. MaxHostStreams
  <2>1. n \in Nat /\ Cardinality(HostRegisters(m)) \in Nat
    BY <1>5, CsvRegistersOf, FS_CardinalityType DEF Sortable
  <2> QED
    BY <1>5, <2>1, CsvRegistersOf, TablesAssumption
<1>7. /\ HostSpecs(specs) \in [1 .. n -> HostSet(m, f)] /\ InOrder(HostSpecs(specs), n)
      /\ \A x \in HostSet(m, f) : \E i \in 1 .. n : HostSpecs(specs)[i] = x
  BY <1>2, <1>5, ByAddrSorts
<1> HIDE DEF n, specs
<1>8. \A r \in HostRegisters(m) : \E i \in 1 .. n : HostSpecs(specs)[i] = CsvSpec(r, f)
  BY <1>4, <1>7
<1>9. \A i \in 1 .. n : \E r \in HostRegisters(m) :
        HostSpecs(specs)[i] = CsvSpec(r, f) /\ HostSpecs(specs)[i].addr = r.addr
  BY <1>3, <1>7
<1> QED
  BY <1>6, <1>7, <1>8, <1>9 DEF n, specs

-------------------------------------------------------------------------------
(* The index of an address in an ordered table. *)
Listed(q, n, T) ==
  n \in Nat /\ q \in [1 .. n -> T] /\ InOrder(q, n) /\ \A x \in T : x.addr \in Int

Finds(index, q, n, a) ==
  /\ index[a] >= 0 <=> \E i \in 1 .. n : q[i].addr = a
  /\ \A i \in 1 .. n : q[i].addr = a => index[a] = i - 1

LEMMA IndexFinds ==
  ASSUME NEW n, NEW T, NEW q, Listed(q, n, T), NEW a \in Addr
  PROVE  Finds(IndexByAddr(q), q, n, a)
<1> USE DEF Listed, Finds
<1>1. IndexByAddr(q)[a] = IF \E i \in 1 .. n : q[i].addr = a
                          THEN (CHOOSE i \in 1 .. n : q[i].addr = a) - 1
                          ELSE -1
  BY DEF IndexByAddr
<1>2. ASSUME NEW i \in 1 .. n, NEW j \in 1 .. n, q[i].addr = q[j].addr
      PROVE  i = j
  <2>1. q[i].addr \in Int /\ q[j].addr \in Int
    OBVIOUS
  <2>2. ~(i < j) /\ ~(j < i)
    BY <1>2, <2>1 DEF InOrder
  <2> QED
    BY <2>2
<1>3. CASE \E i \in 1 .. n : q[i].addr = a
  <2>1. PICK c : c \in 1 .. n /\ q[c].addr = a /\ IndexByAddr(q)[a] = c - 1
    BY <1>1, <1>3
  <2>2. \A i \in 1 .. n : q[i].addr = a => i = c
    BY <1>2, <2>1
  <2>3. c - 1 >= 0
    BY <2>1
  <2> QED
    BY <1>3, <2>1, <2>2, <2>3
<1>4. CASE ~ \E i \in 1 .. n : q[i].addr = a
  BY <1>1, <1>4
<1> QED
  BY <1>3, <1>4

(* The tables of the registers, of the CSV registers and of the streams. *)
RegisterSet(m) == {[addr |-> r.addr, access |-> r.access] : r \in ToSet(m.registers)}

LEMMA RegistersSorted ==
  ASSUME NEW m \in Models, Valid(m), NEW f
  PROVE  LET regs == Tables(m, f).registers
             n == Cardinality(RegisterSet(m))
         IN /\ n \in Nat /\ regs \in [1 .. n -> RegisterSet(m)] /\ InOrder(regs, n)
            /\ \A x \in RegisterSet(m) : x.addr \in Int /\ \E i \in 1 .. n : regs[i] = x
<1> DEFINE S == ToSet(m.registers)
           T == RegisterSet(m)
           g == [r \in S |-> [addr |-> r.addr, access |-> r.access]]
<1>1. g \in [S -> T] /\ T = {g[x] : x \in S}
  BY DEF RegisterSet
<1>2. \A x \in S : g[x].addr = x.addr
  OBVIOUS
<1>3. IsFiniteSet(S) /\ (\A x \in S : x.addr \in Int) /\ \A x, y \in S : x.addr = y.addr => x = y
  BY ValidRegisters, TablesAssumption DEF Addr
<1>4. Sortable(T)
  <2> HIDE DEF S, T, g
  <2>1. \A x \in S : g[x].addr \in Int
    BY <1>2, <1>3
  <2>2. \A x, y \in S : g[x].addr = g[y].addr => g[x] = g[y]
    BY <1>2, <1>3
  <2> QED
    BY <1>1, <1>3, <2>1, <2>2, ImageSortable
<1>5. Tables(m, f).registers = ByAddr(T)
  BY DEF Tables, RegisterSet
<1>6. \A x \in T : x.addr \in Int
  BY <1>4 DEF Sortable
<1> QED
  BY <1>4, <1>5, <1>6, ByAddrSorts

(* The tables made of a model agree with each other. *)
LEMMA TablesOfModel ==
  ASSUME NEW m \in Models, NEW f, Generates(m, f), firmware = Tables(m, f)
  PROVE  TablesAgree
<1> DEFINE specs == CsvSpecs(m, f)
           k == Cardinality(SpecSet(m, f))
           hosts == HostSpecs(specs)
           n == Cardinality(HostSet(m, f))
           regs == firmware.registers
           w == Cardinality(RegisterSet(m))
<1>1. Valid(m) /\ (\A p \in CsvPaths(m) : HasSamples(f[p])) /\ EmbeddedBytes(specs) <= Budget
  BY DEF Generates
<1>2. /\ firmware.csv = specs
      /\ firmware.csvIndex = IndexByAddr(specs)
      /\ firmware.hostAddrs = [i \in DOMAIN hosts |-> hosts[i].addr]
      /\ firmware.hostIndex = IndexByAddr(hosts)
  BY DEF Tables, HostIndexByAddr
<1>3. /\ k \in Nat /\ specs \in [1 .. k -> SpecSet(m, f)] /\ InOrder(specs, k)
      /\ \A r \in CsvRegisters(m) : \E i \in 1 .. k : specs[i] = CsvSpec(r, f)
  BY <1>1, SpecsSorted
<1>4. /\ n \in 0 .. MaxHostStreams /\ hosts \in [1 .. n -> HostSet(m, f)] /\ InOrder(hosts, n)
      /\ \A r \in HostRegisters(m) : \E i \in 1 .. n : hosts[i] = CsvSpec(r, f)
      /\ \A i \in 1 .. n : \E r \in HostRegisters(m) : hosts[i] = CsvSpec(r, f) /\ hosts[i].addr = r.addr
  BY <1>1, HostsSorted
<1>5. /\ w \in Nat /\ regs \in [1 .. w -> RegisterSet(m)] /\ InOrder(regs, w)
      /\ \A x \in RegisterSet(m) : x.addr \in Int /\ \E i \in 1 .. w : regs[i] = x
  BY <1>1, RegistersSorted
<1>6. /\ \A x \in SpecSet(m, f) : \E r \in CsvRegisters(m) :
           x = CsvSpec(r, f) /\ x.addr = r.addr /\ x.mode = r.csv.mode
      /\ \A x \in SpecSet(m, f) : x.addr \in Int
      /\ \A x, y \in SpecSet(m, f) : x.addr = y.addr => x = y
      /\ HostSet(m, f) = {x \in SpecSet(m, f) : x.mode = "HostStream"}
  BY <1>1, SpecSetSortable DEF Sortable, HostSet
<1>7. n \in Nat /\ n <= MaxHostStreams
  BY <1>4, TablesAssumption
<1> HIDE DEF specs, hosts, regs, k, n, w
<1>8. ASSUME NEW a \in Addr
      PROVE  /\ firmware.csvIndex[a] >= 0 <=> \E i \in 1 .. k : specs[i].addr = a
             /\ \A i \in 1 .. k : specs[i].addr = a => firmware.csvIndex[a] = i - 1
             /\ firmware.hostIndex[a] >= 0 <=> \E i \in 1 .. n : hosts[i].addr = a
             /\ \A i \in 1 .. n : hosts[i].addr = a => firmware.hostIndex[a] = i - 1
  <2>1. Listed(specs, k, SpecSet(m, f)) /\ Listed(hosts, n, HostSet(m, f))
    BY <1>3, <1>4, <1>6, <1>7 DEF Listed
  <2>2. Finds(IndexByAddr(specs), specs, k, a) /\ Finds(IndexByAddr(hosts), hosts, n, a)
    BY <2>1, IndexFinds, Zenon
  <2> QED
    BY <1>2, <2>2 DEF Finds
<1>9. DOMAIN specs = 1 .. k /\ DOMAIN hosts = 1 .. n /\ DOMAIN regs = 1 .. w
  BY <1>3, <1>4, <1>5
<1>10. \A i \in 1 .. k : specs[i] \in SpecSet(m, f) /\ specs[i].addr \in Int
  BY <1>3, <1>6
<1>11. \A i \in 1 .. n : hosts[i] \in SpecSet(m, f) /\ hosts[i].mode = "HostStream" /\ hosts[i].addr \in Int
  BY <1>4, <1>6
<1>12. \A x \in SpecSet(m, f) : \E i \in 1 .. k : specs[i] = x
  BY <1>3, <1>6
<1>13. \A x \in SpecSet(m, f) : x.mode = "HostStream" => \E i \in 1 .. n : hosts[i] = x
  <2> SUFFICES ASSUME NEW x \in SpecSet(m, f), x.mode = "HostStream"
               PROVE  \E i \in 1 .. n : hosts[i] = x
    OBVIOUS
  <2>1. PICK r \in CsvRegisters(m) : x = CsvSpec(r, f) /\ x.mode = r.csv.mode
    BY <1>6
  <2>2. r \in HostRegisters(m)
    BY <2>1 DEF HostRegisters
  <2> QED
    BY <1>4, <2>1, <2>2
<1>14. ASSUME NEW a \in Addr
       PROVE  /\ firmware.csvIndex[a] >= 0 <=> \E i \in 1 .. k : specs[i].addr = a
              /\ (\E i \in 1 .. k : specs[i].addr = a) => specs[firmware.csvIndex[a] + 1].addr = a
              /\ firmware.hostIndex[a] >= 0
                   <=> (\E i \in 1 .. k : specs[i].addr = a) /\ specs[firmware.csvIndex[a] + 1].mode = "HostStream"
              /\ firmware.hostIndex[a] >= 0 => firmware.hostAddrs[firmware.hostIndex[a] + 1] = a
  <2>1. ASSUME NEW i \in 1 .. k, specs[i].addr = a
        PROVE  specs[firmware.csvIndex[a] + 1] = specs[i]
    <3>1. firmware.csvIndex[a] = i - 1
      BY <1>8, <2>1
    <3>2. firmware.csvIndex[a] + 1 = i
      BY <1>3, <3>1
    <3> QED
      BY <3>2
  <2>2. ASSUME NEW i \in 1 .. n, hosts[i].addr = a
        PROVE  firmware.hostAddrs[firmware.hostIndex[a] + 1] = a
    <3>1. firmware.hostIndex[a] = i - 1
      BY <1>8, <2>2
    <3>2. firmware.hostIndex[a] + 1 = i
      BY <1>7, <3>1
    <3> QED
      BY <1>2, <1>9, <2>2, <3>2
  <2>3. ASSUME NEW i \in 1 .. n, hosts[i].addr = a
        PROVE  (\E j \in 1 .. k : specs[j].addr = a) /\ specs[firmware.csvIndex[a] + 1].mode = "HostStream"
    <3>1. PICK j \in 1 .. k : specs[j] = hosts[i]
      BY <1>11, <1>12
    <3> QED
      BY <1>11, <2>1, <2>3, <3>1
  <2>4. ASSUME NEW j \in 1 .. k, specs[j].addr = a, specs[firmware.csvIndex[a] + 1].mode = "HostStream"
        PROVE  \E i \in 1 .. n : hosts[i].addr = a
    <3>1. specs[j] \in SpecSet(m, f) /\ specs[j].mode = "HostStream"
      BY <1>10, <2>1, <2>4
    <3>2. PICK i \in 1 .. n : hosts[i] = specs[j]
      BY <1>13, <3>1
    <3> QED
      BY <2>4, <3>2
  <2> QED
    BY <1>8, <2>1, <2>2, <2>3, <2>4
<1>15. ASSUME NEW i \in 1 .. k
       PROVE  /\ [addr |-> specs[i].addr, access |-> "Ro"] \in ToSet(regs)
              /\ specs[i].mode = "Embedded" => specs[i].data # <<>>
  <2>1. PICK r \in CsvRegisters(m) : specs[i] = CsvSpec(r, f) /\ specs[i].addr = r.addr /\ specs[i].mode = r.csv.mode
    BY <1>6, <1>10
  <2>2. r \in ToSet(m.registers) /\ r.access = "Ro" /\ r.csv.path \in CsvPaths(m)
    BY <1>1, CsvRegistersOf
  <2>3. [addr |-> r.addr, access |-> "Ro"] \in RegisterSet(m)
    BY <2>2 DEF RegisterSet
  <2>4. PICK j \in 1 .. w : regs[j] = [addr |-> r.addr, access |-> "Ro"]
    BY <1>5, <2>3
  <2>5. [addr |-> r.addr, access |-> "Ro"] \in ToSet(regs)
    BY <1>9, <2>4 DEF ToSet
  <2>6. specs[i].mode = "Embedded" => specs[i].data = Samples(f[r.csv.path])
    BY <2>1, SpecOf
  <2>7. Samples(f[r.csv.path]) # <<>>
    BY <1>1, <2>2 DEF HasSamples
  <2> QED
    BY <2>1, <2>5, <2>6, <2>7
<1>16. IsInjective([i \in DOMAIN regs |-> regs[i].addr])
  <2>1. ASSUME NEW i \in 1 .. w, NEW j \in 1 .. w, regs[i].addr = regs[j].addr
        PROVE  i = j
    <3>1. regs[i].addr \in Int /\ regs[j].addr \in Int
      BY <1>5
    <3>2. ~(i < j) /\ ~(j < i)
      BY <1>5, <2>1, <3>1 DEF InOrder
    <3> QED
      BY <1>5, <3>2
  <2> QED
    BY <1>9, <2>1 DEF IsInjective
<1>17. IsInjective(firmware.hostAddrs)
  <2>1. ASSUME NEW i \in 1 .. n, NEW j \in 1 .. n, hosts[i].addr = hosts[j].addr
        PROVE  i = j
    <3>1. hosts[i].addr \in Int /\ hosts[j].addr \in Int
      BY <1>11
    <3>2. ~(i < j) /\ ~(j < i)
      BY <1>4, <2>1, <3>1 DEF InOrder
    <3> QED
      BY <1>7, <3>2
  <2> QED
    BY <1>2, <1>9, <2>1 DEF IsInjective
<1>18. Len(firmware.hostAddrs) <= MaxHostStreams
  <2>1. firmware.hostAddrs \in Seq(Int) /\ DOMAIN firmware.hostAddrs = 1 .. n
    BY <1>2, <1>7, <1>9, <1>11
  <2> QED
    BY <1>7, <2>1, LenProperties
<1> QED
  <2>1. \A a \in Addr :
          /\ firmware.csvIndex[a] >= 0 <=> \E i \in DOMAIN specs : specs[i].addr = a
          /\ (\E i \in DOMAIN specs : specs[i].addr = a) => specs[firmware.csvIndex[a] + 1].addr = a
          /\ firmware.hostIndex[a] >= 0
               <=> (\E i \in DOMAIN specs : specs[i].addr = a) /\ specs[firmware.csvIndex[a] + 1].mode = "HostStream"
          /\ firmware.hostIndex[a] >= 0 => firmware.hostAddrs[firmware.hostIndex[a] + 1] = a
    BY <1>9, <1>14, Zenon
  <2>2. \A i \in DOMAIN specs :
          /\ [addr |-> specs[i].addr, access |-> "Ro"] \in ToSet(firmware.registers)
          /\ specs[i].mode = "Embedded" => specs[i].data # <<>>
    BY <1>9, <1>15, Zenon DEF regs
  <2>3. IsInjective([i \in DOMAIN firmware.registers |-> firmware.registers[i].addr])
    BY <1>16 DEF regs
  <2>4. firmware.csv = specs /\ EmbeddedBytes(specs) <= Budget
    BY <1>1, <1>2
  <2> QED
    BY <1>17, <1>18, <2>1, <2>2, <2>3, <2>4, Zenon DEF TablesAgree

-------------------------------------------------------------------------------
(* Whatever was edited and killed on the way, the tables are ones that were *)
(* made of a model that passed all checks.                                  *)
TablesMade(tables) == \E m \in Models, f \in [Path -> CsvFiles] : Generates(m, f) /\ tables = Tables(m, f)

Made ==
  /\ model \in Models
  /\ files \in [Path -> CsvFiles]
  /\ modelRs # NoTables => TablesMade(modelRs)
  /\ firmware # NoTables => TablesMade(firmware)

LEMMA MadeStep ==
  ASSUME Made, [Next]_vars
  PROVE  Made'
<1>1. model' \in Models /\ files' \in [Path -> CsvFiles]
  BY DEF Made, Next, vars, fileVars, EditModel, EditCsv, GenModel, GenModelKilled, BuildStart, ScriptGenerates,
         ScriptListsFiles, Compile, BuildKilled, StartStreamer
<1>2. ASSUME GenerateFromPaths
      PROVE  modelRs' # NoTables => TablesMade(modelRs')
  BY <1>2 DEF Made, GenerateFromPaths, TablesMade
<1>3. modelRs' # NoTables => TablesMade(modelRs')
  <2>1. modelRs' \in {modelRs, NoTables} \/ GenerateFromPaths
    BY DEF Next, vars, fileVars, EditModel, EditCsv, GenModel, GenModelKilled, BuildStart, ScriptGenerates,
           ScriptListsFiles, Compile, BuildKilled, StartStreamer
  <2> QED
    BY <1>2, <2>1 DEF Made
<1>4. firmware' = firmware \/ (modelRs # NoTables /\ firmware' = modelRs)
  BY DEF Next, vars, fileVars, EditModel, EditCsv, GenModel, GenModelKilled, BuildStart, ScriptGenerates,
         ScriptListsFiles, Compile, BuildKilled, StartStreamer
<1>5. firmware' # NoTables => TablesMade(firmware')
  BY <1>4 DEF Made
<1> QED
  BY <1>1, <1>3, <1>5 DEF Made, TablesMade

THEOREM TablesAreMade == Spec => []Made
<1>1. Init => Made
  BY DEF Init, Made
<1>2. Made /\ [Next]_vars => Made'
  BY MadeStep
<1> QED
  BY <1>1, <1>2, PTL DEF Spec

(* The tables that the firmware indexes unchecked agree with each other.    *)
THEOREM TablesCorrect == Spec => []TablesAgree
<1>1. Made => TablesAgree
  <2> SUFFICES ASSUME Made, firmware # NoTables
               PROVE  TablesAgree
    BY DEF TablesAgree
  <2>1. PICK m \in Models, f \in [Path -> CsvFiles] : Generates(m, f) /\ firmware = Tables(m, f)
    BY DEF Made, TablesMade
  <2> QED
    BY <2>1, TablesOfModel
<1> QED
  BY <1>1, TablesAreMade, PTL

-------------------------------------------------------------------------------
(* What is made of a model depends on its own CSV files only. *)
LEMMA LocalFiles ==
  ASSUME NEW m, NEW f, NEW g, \A p \in CsvPaths(m) : f[p] = g[p]
  PROVE  (Generates(m, f) <=> Generates(m, g)) /\ Tables(m, f) = Tables(m, g)
<1>1. ASSUME NEW r \in CsvRegisters(m)
      PROVE  CsvSpec(r, f) = CsvSpec(r, g)
  <2>1. f[r.csv.path] = g[r.csv.path]
    BY DEF CsvPaths
  <2> QED
    BY <2>1 DEF CsvSpec
<1>2. {CsvSpec(r, f) : r \in CsvRegisters(m)} = {CsvSpec(r, g) : r \in CsvRegisters(m)}
  BY <1>1
<1>3. CsvSpecs(m, f) = CsvSpecs(m, g)
  BY <1>2 DEF CsvSpecs
<1>4. (\A p \in CsvPaths(m) : HasSamples(f[p])) <=> (\A p \in CsvPaths(m) : HasSamples(g[p]))
  OBVIOUS
<1> QED
  BY <1>3, <1>4 DEF Generates, Tables

(* The tables in model.rs, if any, are those of the files as they are. *)
Current == Generates(model, files) /\ (modelRs # NoTables => modelRs = Tables(model, files))

(* While no file has changed that the build script names, or is about to    *)
(* name, model.rs is current.                                               *)
Fresh ==
  /\ pc \in {"idle", "generate", "list", "compile"}
  /\ pc \in {"generate", "list"} => ~ scriptDone
  /\ pc = "compile" => scriptDone
  /\ scriptDone => ModelFile \in watched
  /\ scriptDone /\ changed \cap watched = {} => watched = WatchList /\ Current
  /\ pc = "list" /\ ModelFile \notin changed /\ changed \cap CsvPaths(model) = {} => Current


LEMMA CurrentKept ==
  ASSUME Made, Current, NEW p \in Path, NEW file, p \notin CsvPaths(model),
         files' = [files EXCEPT ![p] = file], UNCHANGED <<model, modelRs>>
  PROVE  Current'
<1>1. \A q \in CsvPaths(model) : files[q] = files'[q]
  <2>1. ASSUME NEW q \in CsvPaths(model)
        PROVE  q \in Path
    <3>1. Valid(model) /\ model \in Models
      BY DEF Current, Generates, Made
    <3>2. PICK r \in CsvRegisters(model) : q = r.csv.path
      BY DEF CsvPaths
    <3>3. r \in RegisterDef /\ r.csv # NoCsv /\ r.csv.path # EmptyPath
      BY <3>1, <3>2, ValidRegisters DEF CsvRegisters, Valid
    <3> QED
      BY <3>2, <3>3 DEF RegisterDef
  <2> QED
    BY <2>1 DEF Made
<1>2. (Generates(model, files) <=> Generates(model, files')) /\ Tables(model, files) = Tables(model, files')
  BY <1>1, LocalFiles
<1> QED
  BY <1>2 DEF Current

LEMMA FreshStep ==
  ASSUME Made, Fresh, [Next]_vars
  PROVE  Fresh'
<1>1. CASE UNCHANGED vars
  BY <1>1 DEF Fresh, Current, WatchList, vars, fileVars, cargoVars
<1>2. ASSUME NEW m \in Models, EditModel(m)
      PROVE  Fresh'
  BY <1>2 DEF Fresh, EditModel, cargoVars
<1>3. ASSUME NEW p \in Path, NEW file \in CsvFiles, EditCsv(p, file)
      PROVE  Fresh'
  <2>1. /\ files' = [files EXCEPT ![p] = file] /\ changed' = changed \cup {p}
        /\ UNCHANGED <<model, modelRs, pc, scriptDone, watched>>
    BY <1>3 DEF EditCsv, cargoVars
  <2>2. WatchList' = WatchList /\ CsvPaths(model)' = CsvPaths(model)
    BY <2>1 DEF WatchList
  <2>3. Current /\ p \notin CsvPaths(model) => Current'
    BY <2>1, CurrentKept
  <2>4. ASSUME scriptDone, (changed \cap watched = {})'
        PROVE  (watched = WatchList /\ Current)'
    <3>1. p \notin watched /\ changed \cap watched = {}
      BY <2>1, <2>4
    <3>2. watched = WatchList /\ Current
      BY <2>4, <3>1 DEF Fresh
    <3> QED
      BY <2>1, <2>2, <2>3, <3>1, <3>2 DEF WatchList
  <2>5. ASSUME pc = "list", (ModelFile \notin changed)', (changed \cap CsvPaths(model) = {})'
        PROVE  Current'
    BY <2>1, <2>2, <2>3, <2>5 DEF Fresh
  <2> QED
    BY <2>1, <2>4, <2>5 DEF Fresh
<1>4. CASE GenModel
  <2>1. UNCHANGED <<model, files, pc, scriptDone, watched, changed>> /\ pc = "idle" /\ GenerateFromPaths
    BY <1>4 DEF GenModel, fileVars, cargoVars
  <2>2. Current => Current'
    BY <2>1 DEF Current, GenerateFromPaths
  <2> QED
    BY <2>1, <2>2 DEF Fresh, WatchList
<1>5. CASE GenModelKilled
  <2>1. UNCHANGED <<model, files, pc, scriptDone, watched, changed>> /\ pc = "idle" /\ modelRs' = NoTables
    BY <1>5 DEF GenModelKilled, fileVars, cargoVars
  <2>2. Current => Current'
    BY <2>1 DEF Current
  <2> QED
    BY <2>1, <2>2 DEF Fresh, WatchList
<1>6. CASE BuildStart
  <2>1. UNCHANGED <<model, files, modelRs, watched>>
    BY <1>6 DEF BuildStart, fileVars
  <2>2. (Current' <=> Current) /\ WatchList' = WatchList
    BY <2>1 DEF Current, WatchList
  <2> QED
    BY <1>6, <2>1, <2>2 DEF Fresh, BuildStart
<1>7. CASE ScriptGenerates
  <2>1. UNCHANGED <<model, files, scriptDone, watched, changed>> /\ pc = "generate" /\ GenerateFromPaths
    BY <1>7 DEF ScriptGenerates, fileVars
  <2>2. pc' = (IF Generates(model, files) THEN "list" ELSE "idle")
    BY <1>7 DEF ScriptGenerates
  <2>3. pc' = "list" => Current'
    BY <2>1, <2>2 DEF Current, GenerateFromPaths
  <2> QED
    BY <2>1, <2>2, <2>3 DEF Fresh
<1>8. CASE ScriptListsFiles
  <2>1. UNCHANGED <<model, files, modelRs, changed>> /\ pc = "list"
    BY <1>8 DEF ScriptListsFiles, fileVars
  <2>2. (Current' <=> Current) /\ WatchList' = WatchList
    BY <2>1 DEF Current, WatchList
  <2>3. ASSUME watched' = WatchList, scriptDone' = TRUE, pc' = "compile"
        PROVE  Fresh'
    BY <2>1, <2>2, <2>3 DEF Fresh, WatchList
  <2>4. ASSUME pc' = "idle", UNCHANGED <<watched, scriptDone>>
        PROVE  Fresh'
    BY <2>1, <2>2, <2>4 DEF Fresh
  <2> QED
    <3>1. CASE Valid(model)
      BY <1>8, <2>3, <3>1 DEF ScriptListsFiles
    <3>2. CASE ~ Valid(model)
      <4>1. pc' = "idle" /\ watched' = watched /\ scriptDone' = scriptDone
        BY <1>8, <3>2 DEF ScriptListsFiles
      <4> QED
        BY <2>4, <4>1
    <3> QED
      BY <3>1, <3>2
<1>9. CASE Compile
  <2>1. UNCHANGED <<model, files, modelRs, scriptDone, watched, changed>> /\ pc' = "idle"
    BY <1>9 DEF Compile, fileVars
  <2>2. (Current' <=> Current) /\ WatchList' = WatchList
    BY <2>1 DEF Current, WatchList
  <2> QED
    BY <2>1, <2>2 DEF Fresh
<1>10. CASE BuildKilled
  <2>1. UNCHANGED <<model, files, scriptDone, watched, changed>> /\ pc' = "idle" /\ modelRs' \in {modelRs, NoTables}
    BY <1>10 DEF BuildKilled, fileVars
  <2>2. (Current => Current') /\ WatchList' = WatchList
    BY <2>1 DEF Current, WatchList
  <2> QED
    BY <2>1, <2>2 DEF Fresh
<1>11. CASE StartStreamer
  BY <1>11 DEF StartStreamer, Fresh, Current, WatchList, fileVars, cargoVars
<1> QED
  BY <1>1, <1>2, <1>3, <1>4, <1>5, <1>6, <1>7, <1>8, <1>9, <1>10, <1>11 DEF Next

THEOREM FreshTables == Spec => []Fresh
<1>1. Init => Fresh
  BY DEF Init, Fresh
<1>2. Made /\ Fresh /\ [Next]_vars => Fresh'
  BY FreshStep
<1> QED
  BY <1>1, <1>2, TablesAreMade, PTL DEF Spec

(* A build never uses tables that are older than the files it watches.      *)
THEOREM BuildsAreFresh == Spec => BuildIsFresh
<1>1. Fresh /\ [Next]_vars =>
        [(Compile /\ modelRs # NoTables /\ changed \cap watched = {})
           => (Generates(model, files) /\ firmware' = Tables(model, files))]_vars
  <2> SUFFICES ASSUME Fresh, Compile, modelRs # NoTables, changed \cap watched = {}
               PROVE  Generates(model, files) /\ firmware' = Tables(model, files)
    OBVIOUS
  <2>1. Current
    BY DEF Fresh, Compile
  <2> QED
    BY <2>1 DEF Current, Compile
<1> QED
  BY <1>1, FreshTables, PTL DEF Spec, BuildIsFresh

-------------------------------------------------------------------------------
(* The streams of a generated table and the registers of its model. *)
LEMMA StreamsOfModel ==
  ASSUME NEW m \in Models, NEW f, Generates(m, f), firmware = Tables(m, f)
  PROVE  \E n \in Nat :
           /\ Len(firmware.hostAddrs) = n /\ DOMAIN firmware.hostAddrs = 1 .. n
           /\ \A a \in Addr, i \in 1 .. n : firmware.hostAddrs[i] = a => firmware.hostIndex[a] = i - 1
           /\ \A i \in 1 .. n : \E r \in HostRegisters(m) : firmware.hostAddrs[i] = r.addr
           /\ \A r \in HostRegisters(m) : \E i \in 1 .. n : firmware.hostAddrs[i] = r.addr
<1> DEFINE hosts == HostSpecs(CsvSpecs(m, f))
           n == Cardinality(HostSet(m, f))
<1>1. Valid(m)
  BY DEF Generates
<1>2. /\ n \in 0 .. MaxHostStreams /\ hosts \in [1 .. n -> HostSet(m, f)] /\ InOrder(hosts, n)
      /\ \A r \in HostRegisters(m) : \E i \in 1 .. n : hosts[i] = CsvSpec(r, f)
      /\ \A i \in 1 .. n : \E r \in HostRegisters(m) : hosts[i] = CsvSpec(r, f) /\ hosts[i].addr = r.addr
  BY <1>1, HostsSorted
<1>3. firmware.hostAddrs = [i \in DOMAIN hosts |-> hosts[i].addr] /\ firmware.hostIndex = IndexByAddr(hosts)
  BY DEF Tables, HostIndexByAddr
<1>4. n \in Nat
  BY <1>2, TablesAssumption
<1>5. \A x \in HostSet(m, f) : x.addr \in Int
  BY <1>1, SpecSetSortable DEF Sortable, HostSet
<1> HIDE DEF n, hosts
<1>6. Listed(hosts, n, HostSet(m, f))
  BY <1>2, <1>4, <1>5 DEF Listed
<1>7. DOMAIN firmware.hostAddrs = 1 .. n /\ \A i \in 1 .. n : firmware.hostAddrs[i] = hosts[i].addr
  BY <1>2, <1>3
<1>8. Len(firmware.hostAddrs) = n
  <2>1. firmware.hostAddrs \in Seq(Int)
    BY <1>2, <1>3, <1>4, <1>5
  <2> QED
    BY <1>4, <1>7, <2>1, LenProperties
<1>9. ASSUME NEW a \in Addr, NEW i \in 1 .. n, firmware.hostAddrs[i] = a
      PROVE  firmware.hostIndex[a] = i - 1
  <2>1. Finds(IndexByAddr(hosts), hosts, n, a)
    BY <1>6, IndexFinds, Zenon
  <2> QED
    BY <1>3, <1>7, <1>9, <2>1 DEF Finds
<1>10. \A r \in HostRegisters(m) : \E i \in 1 .. n : firmware.hostAddrs[i] = r.addr
  BY <1>2, <1>7, SpecOf
<1>11. \A i \in 1 .. n : \E r \in HostRegisters(m) : firmware.hostAddrs[i] = r.addr
  BY <1>2, <1>7
<1>12. \A a \in Addr, i \in 1 .. n : firmware.hostAddrs[i] = a => firmware.hostIndex[a] = i - 1
  BY <1>9
<1> QED
  BY <1>4, <1>7, <1>8, <1>10, <1>11, <1>12, Zenon

LEMMA StreamerFeedsRight ==
  ASSUME Made, StartStreamer
  PROVE  IF fed' = Refused
         THEN ~ (Generates(model, files) /\ firmware = Tables(model, files) /\ firmware.hostAddrs # <<>>)
         ELSE /\ DOMAIN fed' = {firmware.hostIndex[r.addr] : r \in HostRegisters(model)}
              /\ \A r \in HostRegisters(model) :
                   fed'[firmware.hostIndex[r.addr]] = Samples(files[r.csv.path])
<1> DEFINE addrs == firmware.hostAddrs
           Matched == SourcesLoad /\ DescriptorsMatch
<1>1. model \in Models /\ firmware # NoTables /\ TablesMade(firmware)
  BY DEF Made, StartStreamer
<1>2. fed' = IF Matched THEN [s \in 0 .. Len(addrs) - 1 |-> Samples(files[SourceOf(s).csv.path])] ELSE Refused
  BY DEF StartStreamer
<1>3. PICK n \in Nat :
        /\ Len(addrs) = n /\ DOMAIN addrs = 1 .. n
        /\ \A a \in Addr, i \in 1 .. n : addrs[i] = a => firmware.hostIndex[a] = i - 1
  BY <1>1, StreamsOfModel DEF TablesMade
<1>4. ToSet(addrs) = {addrs[i] : i \in 1 .. n}
  BY <1>3 DEF ToSet
<1>5. ASSUME fed' = Refused, Generates(model, files), firmware = Tables(model, files), addrs # <<>>
      PROVE  FALSE
  <2>1. PICK k \in Nat :
          /\ Len(addrs) = k /\ DOMAIN addrs = 1 .. k
          /\ \A i \in 1 .. k : \E r \in HostRegisters(model) : addrs[i] = r.addr
          /\ \A r \in HostRegisters(model) : \E i \in 1 .. k : addrs[i] = r.addr
    BY <1>1, <1>5, StreamsOfModel
  <2>2. k = n
    BY <1>3, <2>1
  <2>3. addrs \in Seq(ToSet(addrs))
    <3>1. addrs = [i \in 1 .. n |-> addrs[i]]
      BY <1>5, <2>1, <2>2 DEF Tables
    <3>2. \A i \in 1 .. n : addrs[i] \in ToSet(addrs)
      BY <1>4
    <3> QED
      BY <3>1, <3>2
  <2>4. n # 0
    BY <1>3, <1>5, <2>3, EmptySeq
  <2>5. DescriptorsMatch
    <3>1. \A i \in 1 .. n : addrs[i] \in {r.addr : r \in HostRegisters(model)}
      BY <2>1, <2>2
    <3>2. \A r \in HostRegisters(model) : r.addr \in {addrs[i] : i \in 1 .. n}
      BY <2>1, <2>2
    <3> HIDE DEF addrs
    <3>3. {addrs[i] : i \in 1 .. n} = {r.addr : r \in HostRegisters(model)}
      BY <3>1, <3>2
    <3> QED
      BY <1>4, <3>3 DEF DescriptorsMatch, addrs
  <2>6. HostRegisters(model) # {}
    BY <2>1, <2>2, <2>4
  <2>7. SourcesLoad
    <3>1. Valid(model) /\ \A p \in CsvPaths(model) : HasSamples(files[p])
      BY <1>5 DEF Generates
    <3>2. \A r \in HostRegisters(model) : r.csv.path \in CsvPaths(model)
      BY DEF HostRegisters, CsvPaths
    <3> QED
      BY <2>6, <3>1, <3>2 DEF SourcesLoad
  <2>8. DOMAIN fed' = 0 .. n - 1
    BY <1>2, <1>3, <2>5, <2>7
  <2>9. 0 \in DOMAIN fed'
    BY <2>4, <2>8
  <2>10. DOMAIN Refused = {}
    BY DEF Refused
  <2> QED
    BY <1>5, <2>9, <2>10
<1>6. ASSUME fed' # Refused
      PROVE  /\ DOMAIN fed' = {firmware.hostIndex[r.addr] : r \in HostRegisters(model)}
             /\ \A r \in HostRegisters(model) :
                  fed'[firmware.hostIndex[r.addr]] = Samples(files[r.csv.path])
  <2>1. SourcesLoad /\ {addrs[i] : i \in 1 .. n} = {r.addr : r \in HostRegisters(model)}
    BY <1>2, <1>4, <1>6 DEF DescriptorsMatch
  <2>2. fed' = [s \in 0 .. n - 1 |-> Samples(files[SourceOf(s).csv.path])]
    BY <1>2, <1>3, <1>6
  <2>3. /\ \A r \in HostRegisters(model) : r.addr \in Addr
        /\ \A r, t \in HostRegisters(model) : r.addr = t.addr => r = t
    BY <1>1, <2>1, CsvRegistersOf DEF SourcesLoad
  <2>4. ASSUME NEW r \in HostRegisters(model)
        PROVE  /\ firmware.hostIndex[r.addr] \in 0 .. n - 1
               /\ fed'[firmware.hostIndex[r.addr]] = Samples(files[r.csv.path])
    <3>1. PICK i \in 1 .. n : addrs[i] = r.addr
      BY <2>1
    <3>2. firmware.hostIndex[r.addr] = i - 1 /\ i - 1 \in 0 .. n - 1 /\ (i - 1) + 1 = i
      BY <1>3, <2>3, <3>1
    <3>3. SourceOf(i - 1) = r
      BY <2>3, <3>1, <3>2 DEF SourceOf
    <3> QED
      BY <2>2, <3>2, <3>3
  <2>5. ASSUME NEW s \in 0 .. n - 1
        PROVE  \E r \in HostRegisters(model) : firmware.hostIndex[r.addr] = s
    <3>1. s + 1 \in 1 .. n /\ (s + 1) - 1 = s
      OBVIOUS
    <3>2. PICK r \in HostRegisters(model) : addrs[s + 1] = r.addr
      BY <2>1, <3>1
    <3> QED
      BY <1>3, <2>3, <3>1, <3>2
  <2>6. DOMAIN fed' = 0 .. n - 1
    BY <2>2
  <2> QED
    BY <2>4, <2>5, <2>6
<1> QED
  BY <1>5, <1>6

(* Every stream of the firmware gets the samples of the register at its     *)
(* address, or the streamer refuses, which it never does with the files the *)
(* firmware was built from.                                                 *)
THEOREM SamplesReachStreams == Spec => StreamsGetTheirSamples
<1>1. Made /\ [Next]_vars =>
        [StartStreamer =>
           IF fed' = Refused
           THEN ~ (Generates(model, files) /\ firmware = Tables(model, files) /\ firmware.hostAddrs # <<>>)
           ELSE /\ DOMAIN fed' = {firmware.hostIndex[r.addr] : r \in HostRegisters(model)}
                /\ \A r \in HostRegisters(model) :
                     fed'[firmware.hostIndex[r.addr]] = Samples(files[r.csv.path])]_vars
  BY StreamerFeedsRight
<1> QED
  BY <1>1, TablesAreMade, PTL DEF Spec, StreamsGetTheirSamples

================================================================================
