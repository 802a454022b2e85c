----------------------------- MODULE MCBackground -----------------------------
(* Instances of AsyncCalls and ArrayBufferRegistry for TLC: what goes on    *)
(* after JavaScript has returned.  They share no state: a behaviour is one  *)
(* of the asynchronous calls or one of the registry.                        *)
EXTENDS MCAsyncCalls, ArrayBufferRegistry

VARIABLE focus \* the module whose behaviour this is

BackgroundInit == AsyncInit /\ RegistryInit /\ focus \in {"calls", "registry"}

BackgroundNext ==
  \/ focus = "calls" /\ AsyncNext /\ UNCHANGED <<registryVars, focus>>
  \/ focus = "registry" /\ RegistryNext /\ UNCHANGED <<allVars, focus>>

\* RegistryFairness asks for no step while the registry is as it began.
BackgroundSpec ==
  /\ BackgroundInit
  /\ [][BackgroundNext]_<<allVars, registryVars, focus>>
  /\ RegistryFairness
===============================================================================
