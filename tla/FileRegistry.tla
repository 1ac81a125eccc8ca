---------------------------- MODULE FileRegistry ----------------------------
(***************************************************************************)
(* tools/gen_file_registry.py, and make around it.  The simulator names a  *)
(* file by a number, its position in a table of paths; the generator       *)
(* writes the numbers (gen/file_ids.act) and the tables                    *)
(* (gen/file_registry.conf) from one registry, and the two must agree when *)
(* actsim is run.  make runs the generator before every test, because the  *)
(* ROM image it depends on is always made anew.                            *)
(***************************************************************************)
EXTENDS Integers, Sequences, FiniteSets

CONSTANTS RegistryLines,   \* records [kind, symbol, path] of a registry
          Present,         \* the paths that exist
          MaxLines         \* bound on the lines of a registry

VARIABLES registry,        \* the lines of file_registry.txt
          making,          \* how far make has come
          entries,         \* what the generator has read
          ids, conf        \* the files it writes: pint lines, path tables

fileRegistry == <<registry, making, entries, ids, conf>>

ValidKinds == {"input", "output"}
NoTables == [k \in ValidKinds |-> << >>]

RegistryInit == /\ registry = << >> /\ making = "idle" /\ entries = << >>
                /\ ids = << >> /\ conf = NoTables

-----------------------------------------------------------------------------
(***************************************************************************)
(* parse_registry and check_inputs_exist raise before anything is written. *)
(***************************************************************************)
\* Faulty: every kind has its own symbols.  (Faulty variants precede the
\* definition they vary; only the mutation runs use them.)
DuplicatesByKind(lines) ==
    \E i, j \in DOMAIN lines : /\ i < j
                               /\ lines[i].symbol = lines[j].symbol
                               /\ lines[i].kind = lines[j].kind

Duplicates(lines) ==
    \E i, j \in DOMAIN lines : i < j /\ lines[i].symbol = lines[j].symbol

Parses(lines) == /\ \A i \in DOMAIN lines : lines[i].kind \in ValidKinds
                 /\ ~Duplicates(lines)

InputsExist(lines) ==
    \A i \in DOMAIN lines : lines[i].kind = "input" => lines[i].path \in Present

(***************************************************************************)
(* act_lines counts within each kind; conf_lines lists the paths of each.  *)
(***************************************************************************)
\* Faulty: one counter for both kinds.
CountGlobal(lines, i) == i - 1

Count(lines, i) == Cardinality({j \in 1 .. i - 1 : lines[j].kind = lines[i].kind})

act_lines(lines) ==
    [i \in DOMAIN lines |-> [symbol |-> lines[i].symbol,
                             value  |-> Count(lines, i)]]

paths_of(lines, k) ==
    LET upto[i \in 0 .. Len(lines)] ==
            IF i = 0 THEN << >>
            ELSE IF lines[i].kind = k THEN Append(upto[i - 1], lines[i].path)
                 ELSE upto[i - 1]
    IN  upto[Len(lines)]

conf_lines(lines) == [k \in ValidKinds |-> paths_of(lines, k)]

-----------------------------------------------------------------------------
\* The registry is edited at any time, a line at a time.
AddLine(line) == /\ Len(registry) < MaxLines
                 /\ registry' = Append(registry, line)
                 /\ UNCHANGED <<making, entries, ids, conf>>

DropLine == /\ registry # << >>
            /\ registry' = Tail(registry)
            /\ UNCHANGED <<making, entries, ids, conf>>

Generate == /\ making \in {"idle", "test"}
            /\ Parses(registry) /\ InputsExist(registry)
            /\ making' = "ids"
            /\ entries' = registry
            /\ UNCHANGED <<registry, ids, conf>>

\* make stops, and no test runs.
GenerateFails == /\ making \in {"idle", "test"}
                 /\ ~(Parses(registry) /\ InputsExist(registry))
                 /\ making' = "idle"
                 /\ UNCHANGED <<registry, entries, ids, conf>>

WriteIds == /\ making = "ids"
            /\ making' = "conf"
            /\ ids' = act_lines(entries)
            /\ UNCHANGED <<registry, entries, conf>>

WriteConf == /\ making = "conf"
             /\ making' = "test"
             /\ conf' = conf_lines(entries)
             /\ UNCHANGED <<registry, entries, ids>>

\* Faulty: make goes on after an interrupt.
AfterInterruptGoesOn == "test"

AfterInterrupt == "idle"

\* An interrupt; the file in hand may have been truncated already.
Interrupted == /\ making \in {"ids", "conf"}
               /\ making' = AfterInterrupt
               /\ ids' \in IF making = "ids" THEN {ids, << >>} ELSE {ids}
               /\ conf' \in IF making = "conf" THEN {conf, NoTables} ELSE {conf}
               /\ UNCHANGED <<registry, entries>>

RegistryNext == \/ \E line \in RegistryLines : AddLine(line)
                \/ DropLine
                \/ Generate \/ GenerateFails
                \/ WriteIds \/ WriteConf \/ Interrupted

-----------------------------------------------------------------------------
(***************************************************************************)
(* A test that runs finds, under each symbol of the registry it was made   *)
(* from, the file the registry names - whatever was edited, interrupted or *)
(* left over before (gen_file_registry.py:11-12).                          *)
(***************************************************************************)
IdsFindFiles ==
    \A i \in DOMAIN entries, j \in DOMAIN ids :
        ids[j].symbol = entries[i].symbol =>
            /\ ids[j].value + 1 \in DOMAIN conf[entries[i].kind]
            /\ conf[entries[i].kind][ids[j].value + 1] = entries[i].path

(***************************************************************************)
(* A registry that names a missing input, a wrong kind or a symbol twice   *)
(* never reaches a test: one that runs has each symbol declared once.      *)
(***************************************************************************)
InputsKnown ==
    /\ InputsExist(entries)
    /\ \A i \in DOMAIN entries : \E j \in DOMAIN ids :
           \A k \in DOMAIN ids : ids[k].symbol = entries[i].symbol <=> k = j

TestFindsFiles == making = "test" => IdsFindFiles /\ InputsKnown
=============================================================================
