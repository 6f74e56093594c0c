------------------------------ MODULE FirmwareBuild -----------------------------
(***************************************************************************)
(* The way of a device model into the firmware and to the streamer.  The   *)
(* user edits the model and its CSV files at any time, runs gen_model,     *)
(* builds and flashes the firmware, whose build.rs generates model.rs      *)
(* again when a file it watches has changed, and runs csv_streamer, which  *)
(* reads the files as they are by then and compares them with the          *)
(* firmware.  A tool may be killed while it writes model.rs.               *)
(***************************************************************************)
EXTENDS ModelTables

CONSTANTS
  Models,     \* what the model file may hold
  CsvFiles,   \* what a CSV file may hold
  NoTables,   \* a model.rs that does not compile: none yet, or cut short
  MaxEdits    \* how often a file changes: a bound

ModelFile == "device_model.json"

(* What a csv_streamer that gives up feeds: no stream. *)
Refused == <<>>

RegisterDef ==
  [addr : Nat, access : {"Ro", "Rw"},
   csv : {NoCsv} \cup [path : Path \cup {EmptyPath}, mode : {"Embedded", "HostStream"}]]

ASSUME BuildAssumption ==
  Models \subseteq {Unparsable} \cup [i2cAddress : Nat, registers : Seq(RegisterDef)]

VARIABLES
  model, files,   \* the model file, and the CSV file at each path
  modelRs,        \* the tables in firmware/src/model.rs
  firmware,       \* the tables the device runs with
  pc,             \* cargo: idle, generate and list (build.rs), compile
  scriptDone,     \* build.rs has come to its end since it was last started
  watched,        \* the files of its rerun-if-changed lines
  changed,        \* the files changed since it was last started
  fed,            \* what csv_streamer feeds: stream id -> samples, or Refused
  edits

fileVars == <<model, files, edits>>
cargoVars == <<pc, scriptDone, watched>>
vars == <<fileVars, modelRs, firmware, cargoVars, changed, fed>>

Init ==
  /\ model \in Models
  /\ files \in [Path -> CsvFiles]
  /\ edits = 0
  /\ modelRs = NoTables
  /\ firmware = NoTables
  /\ pc = "idle"
  /\ scriptDone = FALSE
  /\ watched = {}
  /\ changed = {}
  /\ fed = Refused

-------------------------------------------------------------------------------
EditModel(m) ==
  /\ edits < MaxEdits
  /\ model' = m
  /\ changed' = changed \cup {ModelFile}
  /\ edits' = edits + 1
  /\ UNCHANGED <<files, modelRs, firmware, cargoVars, fed>>

EditCsv(p, f) ==
  /\ edits < MaxEdits
  /\ files' = [files EXCEPT ![p] = f]
  /\ changed' = changed \cup {p}
  /\ edits' = edits + 1
  /\ UNCHANGED <<model, modelRs, firmware, cargoVars, fed>>

(* generate_from_paths: model.rs is written when all checks are passed. *)
GenerateFromPaths ==
  modelRs' = IF Generates(model, files) THEN Tables(model, files) ELSE modelRs

(* cargo run -p gen_model, with its default arguments *)
GenModel ==
  /\ pc = "idle"
  /\ GenerateFromPaths
  /\ UNCHANGED <<fileVars, firmware, cargoVars, changed, fed>>

GenModelKilled ==
  /\ pc = "idle"
  /\ Generates(model, files)
  /\ modelRs' = NoTables
  /\ UNCHANGED <<fileVars, firmware, cargoVars, changed, fed>>

-------------------------------------------------------------------------------
(* cargo build *)
BuildStart ==
  /\ pc = "idle"
  /\ IF scriptDone /\ changed \cap watched = {}
     THEN pc' = "compile" /\ UNCHANGED <<scriptDone, changed>>
     ELSE pc' = "generate" /\ scriptDone' = FALSE /\ changed' = {}
  /\ UNCHANGED <<fileVars, modelRs, firmware, watched, fed>>

ScriptGenerates ==
  /\ pc = "generate"
  /\ GenerateFromPaths
  /\ pc' = IF Generates(model, files) THEN "list" ELSE "idle"
  /\ UNCHANGED <<fileVars, firmware, scriptDone, watched, changed, fed>>

(* Mutant of WatchList: embedded samples are not watched. *)
M_WatchList == {ModelFile} \cup {r.csv.path : r \in HostRegisters(model)}

WatchList == {ModelFile} \cup CsvPaths(model)

(* The model file is read again. *)
ScriptListsFiles ==
  /\ pc = "list"
  /\ IF Valid(model)
     THEN /\ watched' = WatchList
          /\ scriptDone' = TRUE
          /\ pc' = "compile"
     ELSE pc' = "idle" /\ UNCHANGED <<watched, scriptDone>>
  /\ UNCHANGED <<fileVars, modelRs, firmware, changed, fed>>

(* The device restarts with it. *)
Compile ==
  /\ pc = "compile"
  /\ pc' = "idle"
  /\ IF modelRs # NoTables THEN firmware' = modelRs /\ fed' = Refused ELSE UNCHANGED <<firmware, fed>>
  /\ UNCHANGED <<fileVars, modelRs, scriptDone, watched, changed>>

BuildKilled ==
  /\ pc # "idle"
  /\ pc' = "idle"
  /\ modelRs' = IF pc = "generate" /\ Generates(model, files) THEN NoTables ELSE modelRs
  /\ UNCHANGED <<fileVars, firmware, scriptDone, watched, changed, fed>>

-------------------------------------------------------------------------------
(* csv_streamer's load_host_sources and the checks of its main *)
SourcesLoad ==
  /\ Valid(model)
  /\ \A r \in HostRegisters(model) : HasSamples(files[r.csv.path])
  /\ HostRegisters(model) # {}

(* The source of stream s is found by its address. *)
SourceOf(s) == CHOOSE r \in HostRegisters(model) : r.addr = firmware.hostAddrs[s + 1]

DescriptorsMatch == ToSet(firmware.hostAddrs) = {r.addr : r \in HostRegisters(model)}

(* Mutant of StartStreamer: as many sources as streams are paired in order. *)
M_StartStreamer ==
  /\ firmware # NoTables
  /\ LET sources == ByAddr(HostRegisters(model))
     IN fed' = IF SourcesLoad /\ Len(firmware.hostAddrs) = Len(sources)
               THEN [s \in 0 .. Len(sources) - 1 |-> Samples(files[sources[s + 1].csv.path])]
               ELSE Refused
  /\ UNCHANGED <<fileVars, modelRs, firmware, cargoVars, changed>>

StartStreamer ==
  /\ firmware # NoTables
  /\ fed' = IF SourcesLoad /\ DescriptorsMatch
            THEN [s \in 0 .. Len(firmware.hostAddrs) - 1 |-> Samples(files[SourceOf(s).csv.path])]
            ELSE Refused
  /\ UNCHANGED <<fileVars, modelRs, firmware, cargoVars, changed>>

-------------------------------------------------------------------------------
Next ==
  \/ \E m \in Models : EditModel(m)
  \/ \E p \in Path, f \in CsvFiles : EditCsv(p, f)
  \/ GenModel \/ GenModelKilled
  \/ BuildStart \/ ScriptGenerates \/ ScriptListsFiles \/ Compile \/ BuildKilled
  \/ StartStreamer

Spec == Init /\ [][Next]_vars

-------------------------------------------------------------------------------
(* The firmware indexes its tables unchecked (streams.rs 168-174, 191-215,  *)
(* regfile.rs 37-46): whatever was edited and killed on the way, the tables *)
(* it runs with agree with each other, and they are what Streams and        *)
(* RegisterFile assume of their constants (StreamsAssumption,               *)
(* RegisterAssumption).                                                     *)
TablesAgree ==
  firmware # NoTables =>
    LET csv == firmware.csv
        hosts == firmware.hostAddrs
        IsCsv(a) == \E i \in DOMAIN csv : csv[i].addr = a
    IN /\ \A a \in Addr :
            /\ firmware.csvIndex[a] >= 0 <=> IsCsv(a)
            /\ IsCsv(a) => csv[firmware.csvIndex[a] + 1].addr = a
            /\ firmware.hostIndex[a] >= 0 <=> IsCsv(a) /\ csv[firmware.csvIndex[a] + 1].mode = "HostStream"
            /\ firmware.hostIndex[a] >= 0 => hosts[firmware.hostIndex[a] + 1] = a
       /\ \A i \in DOMAIN csv :
            /\ [addr |-> csv[i].addr, access |-> "Ro"] \in ToSet(firmware.registers)
            /\ csv[i].mode = "Embedded" => csv[i].data # <<>>
       /\ IsInjective([i \in DOMAIN firmware.registers |-> firmware.registers[i].addr])
       /\ IsInjective(hosts)
       /\ Len(hosts) <= MaxHostStreams
       /\ EmbeddedBytes(csv) <= Budget

(* A build that succeeds, with no watched file changed since its script was *)
(* started, gives the firmware the tables of the files as they are: build.rs*)
(* never skips a change that matters, also after failed and killed builds   *)
(* and edits between the two times it reads the model (build.rs 13-29).     *)
BuildIsFresh ==
  [][(Compile /\ modelRs # NoTables /\ changed \cap watched = {})
       => (Generates(model, files) /\ firmware' = Tables(model, files))]_vars

(* Every stream of the firmware gets the samples of the register at its     *)
(* address, or the streamer refuses, which it never does with the files the *)
(* firmware was built from (csv_streamer main.rs 117-159, 266-296): the     *)
(* tables may be older than the files.                                      *)
StreamsGetTheirSamples ==
  [][StartStreamer =>
       IF fed' = Refused
       THEN ~ (Generates(model, files) /\ firmware = Tables(model, files) /\ firmware.hostAddrs # <<>>)
       ELSE /\ DOMAIN fed' = {firmware.hostIndex[r.addr] : r \in HostRegisters(model)}
            /\ \A r \in HostRegisters(model) :
                 fed'[firmware.hostIndex[r.addr]] = Samples(files[r.csv.path])]_vars

===============================================================================
