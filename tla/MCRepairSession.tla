--------------------------- MODULE MCRepairSession ---------------------------
(* Instances of RepairSession for TLC. *)
EXTENDS RepairSession

\* An unclosed delimiter, an unresolved name (E0425), a failed test, a warning.
MCAtoms == {"brace", "E0425", "test", "unused"}
MCSeverity ==
  [a \in MCAtoms |-> CASE a = "brace" -> "syntax" [] a = "E0425" -> "type"
                       [] a = "test" -> "test" [] a = "unused" -> "warning"]
MCAllowed == {"E0425", "unused"}
=============================================================================
