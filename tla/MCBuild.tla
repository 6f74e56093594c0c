--------------------------------- MODULE MCBuild --------------------------------
(***************************************************************************)
(* Two CSV files and three addresses.  Accepted models: an embedded        *)
(* register with no stream, one, and two at different addresses, before,   *)
(* between and behind it; rejected ones: one for each of the checks.       *)
(***************************************************************************)
EXTENDS FirmwareBuild

Reg(a, access, csv) == [addr |-> a, access |-> access, csv |-> csv]
Csv(p, mode) == [path |-> p, mode |-> mode]
Plain(a) == Reg(a, "Rw", NoCsv)
Embedded(a, p) == Reg(a, "Ro", Csv(p, "Embedded"))
Stream(a, p) == Reg(a, "Ro", Csv(p, "HostStream"))
Model(registers) == [i2cAddress |-> 66, registers |-> registers]

MCModels ==
  {Model(r) : r \in {
     <<Stream(2, "p"), Embedded(0, "q"), Plain(1)>>,
     <<Embedded(0, "q"), Stream(2, "q"), Stream(1, "p")>>,
     <<Stream(0, "q"), Embedded(2, "p"), Stream(1, "p")>>,
     <<Embedded(1, "q")>>,
     <<Plain(0), Stream(0, "p")>>,
     <<Plain(3)>>,
     <<Stream(0, "p"), Stream(1, "p"), Stream(2, "p")>>,
     <<Stream(0, EmptyPath)>>,
     <<Reg(0, "Rw", Csv("p", "Embedded"))>> }}
  \cup {[i2cAddress |-> 7, registers |-> <<Plain(0)>>], Unparsable}

MCCsvFiles == {<<0>>, <<Blank, 1>>, <<1, 0, 1>>, <<Blank>>, <<0, 2>>, <<Malformed, 1>>, Unparsable}

===============================================================================
