---------------------------- MODULE BackendSetup ----------------------------
(***************************************************************************)
(* The lazy set-up of the native backend in one Python process (_setup.py) *)
(* and the public calls that rely on it.  Every call that is traced runs   *)
(* ensure_init_jaxmg_backend; a call XLA finds compiled does not.  Threads *)
(* of the process may call at the same time: nothing is locked, and what   *)
(* they share are module globals and JAX's registry of FFI targets.  A     *)
(* step may raise; the caller may then call again.                         *)
(***************************************************************************)
EXTENDS Integers

CONSTANTS
  Threads,     \* the threads that make calls
  NumTargets,  \* _PRODUCTION_FFI_TARGETS, by position
  Faults       \* the steps that may raise

FaultPoints == {"version", "library", "wheel", "preload", "load", "compile"}

ASSUME TargetsAssumption == NumTargets \in Nat \ {0}
ASSUME FaultsAssumption == Faults \subseteq FaultPoints

Targets == 1..NumTargets

VARIABLES
  gpu,          \* jax.devices() has a GPU
  devices,      \* jax.local_device_count()
  initialized,  \* _initialized
  x64,          \* jax_enable_x64
  preloaded,    \* _preloaded_cuda_libraries has the process's cuSOLVERMp
  registered,   \* the targets JAX knows
  compiled,     \* JAX has an executable of the call
  pc,           \* what each thread does next
  target        \* the target each thread registers next

setUpVars == <<gpu, devices, initialized, x64, preloaded, registered, compiled,
               pc, target>>

process == <<gpu, devices>>

Registering == {"locate", "preload", "register"}
Steps == {"idle", "check", "detect", "enable", "validate", "commit", "compile",
          "execute", "raised"} \cup Registering

Goto(t, step) == pc' = [pc EXCEPT ![t] = step]

-----------------------------------------------------------------------------
SetUpInit ==
  /\ gpu \in BOOLEAN
  /\ devices \in {1, 2}
  /\ initialized = FALSE
  /\ x64 \in BOOLEAN
  /\ preloaded = FALSE
  /\ registered = {}
  /\ compiled = FALSE
  /\ pc = [t \in Threads |-> "idle"]
  /\ target = [t \in Threads |-> 1]

(***************************************************************************)
(* A public call, the first or one after the last returned or raised.  Its *)
(* arguments may be those of an executable that exists or others.          *)
(***************************************************************************)
Call(t) ==
  /\ pc[t] \in {"idle", "raised"}
  /\ \/ Goto(t, "check")
     \/ compiled /\ Goto(t, "execute")
  /\ UNCHANGED <<process, initialized, x64, preloaded, registered, compiled, target>>

Raise(t) ==
  /\ Goto(t, "raised")
  /\ UNCHANGED <<process, initialized, x64, preloaded, registered, compiled, target>>

\* Mutant: the flag is set on the way in.
Check_SetsFlag(t) ==
  /\ pc[t] = "check"
  /\ initialized' = TRUE
  /\ Goto(t, IF initialized THEN "compile" ELSE "detect")
  /\ UNCHANGED <<process, x64, preloaded, registered, compiled, target>>

\* ensure_init_jaxmg_backend reads the flag; it is set only after _initialize
\* has returned.
Check(t) ==
  /\ pc[t] = "check"
  /\ Goto(t, IF initialized THEN "compile" ELSE "detect")
  /\ UNCHANGED <<process, initialized, x64, preloaded, registered, compiled, target>>

\* _initialize: without a GPU there is nothing to set up (a warning says so).
Detect(t) ==
  /\ pc[t] = "detect"
  /\ Goto(t, IF gpu THEN "enable" ELSE "commit")
  /\ UNCHANGED <<process, initialized, x64, preloaded, registered, compiled, target>>

DetectFails(t) == "version" \in Faults /\ gpu /\ pc[t] = "detect" /\ Raise(t)

Enable(t) ==
  /\ pc[t] = "enable"
  /\ x64' = TRUE
  /\ Goto(t, "validate")
  /\ UNCHANGED <<process, initialized, preloaded, registered, compiled, target>>

\* _validate_rank_per_gpu_runtime, then the loop over the targets begins.
Validate(t) ==
  /\ pc[t] = "validate"
  /\ IF devices = 1
     THEN /\ Goto(t, "locate")
          /\ target' = [target EXCEPT ![t] = 1]
          /\ UNCHANGED <<process, initialized, x64, preloaded, registered, compiled>>
     ELSE Raise(t)

(***************************************************************************)
(* _register_cuda_target_bundle for the thread's next target: the library  *)
(* must be there, cuSOLVERMp is loaded unless it is in the cache, then the *)
(* library is loaded and the target registered.  Loading what is loaded    *)
(* and registering what is registered change nothing.                      *)
(***************************************************************************)
Locate(t) ==
  /\ pc[t] = "locate"
  /\ Goto(t, IF preloaded THEN "register" ELSE "preload")
  /\ UNCHANGED <<process, initialized, x64, preloaded, registered, compiled, target>>

LocateFails(t) == "library" \in Faults /\ pc[t] = "locate" /\ Raise(t)

Preload(t) ==
  /\ pc[t] = "preload"
  /\ preloaded' = TRUE
  /\ Goto(t, "register")
  /\ UNCHANGED <<process, initialized, x64, registered, compiled, target>>

\* The wheel is not installed, or the dynamic loader refuses it.
PreloadFails(t) ==
  {"wheel", "preload"} \cap Faults # {} /\ pc[t] = "preload" /\ Raise(t)

\* Mutant: the loop ends one target late.
Register_PastTheEnd(t) ==
  /\ pc[t] = "register"
  /\ registered' = registered \cup {target[t]}
  /\ Goto(t, IF target[t] > NumTargets THEN "commit" ELSE "locate")
  /\ target' = [target EXCEPT ![t] = IF @ > NumTargets THEN @ ELSE @ + 1]
  /\ UNCHANGED <<process, initialized, x64, preloaded, compiled>>

Register(t) ==
  /\ pc[t] = "register"
  /\ registered' = registered \cup {target[t]}
  /\ Goto(t, IF target[t] = NumTargets THEN "commit" ELSE "locate")
  /\ target' = [target EXCEPT ![t] = IF @ = NumTargets THEN @ ELSE @ + 1]
  /\ UNCHANGED <<process, initialized, x64, preloaded, compiled>>

RegisterFails(t) == "load" \in Faults /\ pc[t] = "register" /\ Raise(t)

Commit(t) ==
  /\ pc[t] = "commit"
  /\ initialized' = TRUE
  /\ Goto(t, "compile")
  /\ UNCHANGED <<process, x64, preloaded, registered, compiled, target>>

(***************************************************************************)
(* Tracing goes on and XLA compiles the call.  The targets are CUDA's:     *)
(* without a GPU compilation finds no implementation and fails.            *)
(***************************************************************************)
Compile(t) ==
  /\ pc[t] = "compile"
  /\ gpu
  /\ compiled' = TRUE
  /\ Goto(t, "execute")
  /\ UNCHANGED <<process, initialized, x64, preloaded, registered, target>>

CompileFails(t) ==
  pc[t] = "compile" /\ (~gpu \/ "compile" \in Faults) /\ Raise(t)

\* The fused call, and the return to the caller.
Execute(t) ==
  /\ pc[t] = "execute"
  /\ Goto(t, "idle")
  /\ UNCHANGED <<process, initialized, x64, preloaded, registered, compiled, target>>

SetUpNext ==
  \E t \in Threads :
    \/ Call(t) \/ Check(t)
    \/ Detect(t) \/ DetectFails(t) \/ Enable(t) \/ Validate(t)
    \/ Locate(t) \/ LocateFails(t) \/ Preload(t) \/ PreloadFails(t)
    \/ Register(t) \/ RegisterFails(t) \/ Commit(t)
    \/ Compile(t) \/ CompileFails(t) \/ Execute(t)

SetUpSpec == SetUpInit /\ [][SetUpNext]_setUpVars

-----------------------------------------------------------------------------
\* Every variable holds a value the program can give it; the loop stays within
\* the list of targets.
SetUpTypeOK ==
  /\ gpu \in BOOLEAN /\ devices \in {1, 2}
  /\ initialized \in BOOLEAN /\ x64 \in BOOLEAN
  /\ preloaded \in BOOLEAN /\ compiled \in BOOLEAN
  /\ registered \subseteq Targets
  /\ pc \in [Threads -> Steps]
  /\ target \in [Threads -> Targets]

\* The process serves one GPU, cuSOLVERMp is loaded, 64-bit types are on and
\* every target is known.
SetUp == devices = 1 /\ preloaded /\ x64 /\ registered = Targets

\* However threads race through the set-up, and whatever failed and was tried
\* again before, the flag is set only over a complete set-up or where there is
\* no GPU to set up: so no call that skips the set-up, because of the flag or
\* because it is compiled, reaches the native code without it, and none reaches
\* it without a GPU.
SetUpBeforeUse ==
  /\ initialized /\ gpu => SetUp
  /\ \A t \in Threads : pc[t] = "execute" => gpu /\ SetUp
=============================================================================
