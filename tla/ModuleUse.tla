------------------------------ MODULE ModuleUse ------------------------------
(***************************************************************************)
(* What the daemon promises a PKCS#11 module: ordinary functions are       *)
(* called only while the module is initialized and nobody finalizes it, no *)
(* ordinary call is inside during a C_Finalize, and the library is         *)
(* unloaded only when no call is inside it and it is not initialized.      *)
(* Probes (C_GetInfo, C_GetSlotInfo) promise less: they come whenever the  *)
(* library is loaded, also before a C_Initialize and during a C_Finalize.  *)
(* NativeDomain implements this.                                           *)
(***************************************************************************)
CONSTANT Ops         \* threads that make ordinary calls and probes

VARIABLES loaded,    \* the library is mapped
          up,        \* the module is initialized
          calls,     \* the ordinary calls inside the module
          probes,    \* the probes inside the module
          stopping   \* a C_Finalize is inside the module

vars == <<loaded, up, calls, probes, stopping>>

Init ==
  /\ loaded = TRUE
  /\ up = FALSE
  /\ calls = {} /\ probes = {}
  /\ stopping = FALSE

\* A C_Initialize takes effect; calling it on a live module is allowed.
Start ==
  /\ loaded
  /\ up' = TRUE
  /\ UNCHANGED <<loaded, calls, probes, stopping>>

Enter(o) ==
  /\ loaded /\ up /\ ~stopping
  /\ calls' = calls \cup {o}
  /\ UNCHANGED <<loaded, up, probes, stopping>>

Leave(o) ==
  /\ calls' = calls \ {o}
  /\ UNCHANGED <<loaded, up, probes, stopping>>

\* Whether the module is initialized or not, and whoever else is inside.
EnterProbe(o) ==
  /\ loaded
  /\ probes' = probes \cup {o}
  /\ UNCHANGED <<loaded, up, calls, stopping>>

LeaveProbe(o) ==
  /\ probes' = probes \ {o}
  /\ UNCHANGED <<loaded, up, calls, stopping>>

\* No ordinary call is inside; probes may be.
BeginStop ==
  /\ loaded /\ up /\ ~stopping /\ calls = {}
  /\ stopping' = TRUE
  /\ UNCHANGED <<loaded, up, calls, probes>>

\* A C_Finalize that fails leaves the module as it was.
EndStop ==
  /\ stopping
  /\ stopping' = FALSE
  /\ up' \in {FALSE, up}
  /\ UNCHANGED <<loaded, calls, probes>>

Unload ==
  /\ loaded /\ ~up /\ ~stopping /\ calls = {} /\ probes = {}
  /\ loaded' = FALSE
  /\ UNCHANGED <<up, calls, probes, stopping>>

Load ==
  /\ ~loaded
  /\ loaded' = TRUE
  /\ UNCHANGED <<up, calls, probes, stopping>>

Next ==
  \/ Start \/ BeginStop \/ EndStop \/ Unload \/ Load
  \/ \E o \in Ops : Enter(o) \/ Leave(o) \/ EnterProbe(o) \/ LeaveProbe(o)

Spec == Init /\ [][Next]_vars
=============================================================================
