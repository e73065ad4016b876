---------------------------- MODULE MCTrampolines ---------------------------
(* Lua compiled as C and as C++, three calls above the program's and two   *)
(* handlers, one for an error of the other.                                *)
EXTENDS Trampolines

NoUses     == {}
Longjumps  == {"longjmp"}
Raws       == {"raw"}
Panics     == {"panic"}
QuietOnes  == {"quiet_error"}
Catching   == {"catch"}
CAndCxx    == {"c", "cxx"}
CxxUnsafe  == {"cxx_unsafe"}
=============================================================================
