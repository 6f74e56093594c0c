------------------------------- MODULE ModelTables ------------------------------
(***************************************************************************)
(* tools/gen_model/src/lib.rs: which device models it accepts, and the     *)
(* tables it makes of one for the firmware.                                *)
(*                                                                         *)
(* A model is a record [i2cAddress, registers], with the registers in the  *)
(* order of the JSON file, each [addr, access, csv]; csv is NoCsv or a     *)
(* record [path, mode].  A CSV file is the sequence of its lines, of which *)
(* only the first column counts: a number, Blank (nothing but white space  *)
(* and a comment, or an empty column) or Malformed.  Names, defaults and   *)
(* the other scalars go into the tables as they are and are left out.      *)
(***************************************************************************)
EXTENDS Integers, SequencesExt

CONSTANTS
  AddressSpace,    \* REGISTER_ADDRESS_SPACE_SIZE
  MaxHostStreams,  \* MAX_HOST_STREAM_REGS
  Budget,          \* EMBEDDED_CSV_BUDGET_BYTES
  MaxByte,         \* 0xFF
  Path,            \* the paths of CSV files
  EmptyPath,       \* a path of white space
  NoCsv,           \* no csv entry
  Unparsable,      \* a file that cannot be read or is no JSON of a DeviceModel
  Blank, Malformed

ASSUME TablesAssumption ==
  /\ {AddressSpace, MaxHostStreams, Budget, MaxByte} \subseteq Nat \ {0}
  /\ EmptyPath \notin Path

Addr == 0 .. AddressSpace - 1

CsvRegisters(m) == {r \in ToSet(m.registers) : r.csv # NoCsv}
HostRegisters(m) == {r \in CsvRegisters(m) : r.csv.mode = "HostStream"}

-------------------------------------------------------------------------------
(* validate *)
Valid(m) ==
  /\ m # Unparsable
  /\ m.i2cAddress \in 8 .. 119
  /\ Len(m.registers) <= AddressSpace
  /\ \A i \in DOMAIN m.registers :
       /\ m.registers[i].addr < AddressSpace
       /\ \A j \in 1 .. i - 1 : m.registers[j].addr # m.registers[i].addr
  /\ \A r \in CsvRegisters(m) : r.access = "Ro" /\ r.csv.path # EmptyPath
  /\ Cardinality(HostRegisters(m)) <= MaxHostStreams

(* parse_csv_samples, of a file that has samples *)
Samples(file) == SelectSeq(file, LAMBDA v : v # Blank)

HasSamples(file) ==
  /\ file # Unparsable
  /\ Samples(file) # <<>>
  /\ ToSet(Samples(file)) \subseteq 0 .. MaxByte

(* resolve_csv_paths *)
CsvPaths(m) == {r.csv.path : r \in CsvRegisters(m)}

(* The elements of S by their addresses, which differ. *)
ByAddr(S) ==
  CHOOSE q \in [1 .. Cardinality(S) -> S] : \A i, j \in DOMAIN q : i < j => q[i].addr < q[j].addr

(* resolve_csv_specs: samples of host streams are dropped. *)
CsvSpec(r, files) ==
  [addr |-> r.addr, mode |-> r.csv.mode,
   data |-> IF r.csv.mode = "Embedded" THEN Samples(files[r.csv.path]) ELSE <<>>]

CsvSpecs(m, files) == ByAddr({CsvSpec(r, files) : r \in CsvRegisters(m)})

EmbeddedBytes(specs) == FoldSeq(LAMBDA spec, n : n + Len(spec.data), 0, specs)

Generates(m, files) ==
  /\ Valid(m)
  /\ \A p \in CsvPaths(m) : HasSamples(files[p])
  /\ EmbeddedBytes(CsvSpecs(m, files)) <= Budget

-------------------------------------------------------------------------------
(* generate_model_rs *)
IndexByAddr(specs) ==
  [a \in Addr |-> IF \E i \in DOMAIN specs : specs[i].addr = a
                  THEN (CHOOSE i \in DOMAIN specs : specs[i].addr = a) - 1
                  ELSE -1]

HostSpecs(specs) == ByAddr({spec \in ToSet(specs) : spec.mode = "HostStream"})

(* Mutant of HostIndexByAddr: the index among all registers with a CSV. *)
M_HostIndexByAddr(specs) ==
  [a \in Addr |-> IF \E i \in DOMAIN specs : specs[i].addr = a /\ specs[i].mode = "HostStream"
                  THEN (CHOOSE i \in DOMAIN specs : specs[i].addr = a) - 1
                  ELSE -1]

HostIndexByAddr(specs) == IndexByAddr(HostSpecs(specs))

Tables(m, files) ==
  LET specs == CsvSpecs(m, files)
      hosts == HostSpecs(specs)
  IN [registers |-> ByAddr({[addr |-> r.addr, access |-> r.access] : r \in ToSet(m.registers)}),
      csv |-> specs,
      csvIndex |-> IndexByAddr(specs),
      hostAddrs |-> [i \in DOMAIN hosts |-> hosts[i].addr],
      hostIndex |-> HostIndexByAddr(specs)]

===============================================================================
