---------------------------- MODULE MCRepairLoop ----------------------------
(* Small instances of RepairLoop: which errors the checks may report. *)
EXTENDS RepairLoop

CONSTANTS home, main, model, pubspec

Error(f, c) == [file |-> f, code |-> c]

\* A widget error, a provider error, a UI file that needs a provider from
\* Logic, and a broken manifest.
Common == {Error(home, "analyzer"), Error(main, "analyzer"),
           Error(home, "undefined_provider"), Error(pubspec, "unparseable_pubspec")}

\* An error in a data class.
InModel == {Error(model, "analyzer")}
=============================================================================
