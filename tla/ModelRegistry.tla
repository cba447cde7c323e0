------------------------------ MODULE ModelRegistry ------------------------------
(***************************************************************************)
(* Which backend answers a model (models/registry.py): a registry of       *)
(* backends by name, a map from models to names, filled in the order of    *)
(* build_registry (backend_loader.py) and read by run.                     *)
(*                                                                         *)
(* A later backend may list a model of an earlier one, or have its name.   *)
(* Whether a backend is available is asked at every run, and the answer    *)
(* may change; only vLLM's is remembered.  Third-party backends are        *)
(* external.                                                               *)
(***************************************************************************)
EXTENDS Naturals, SequencesExt

CONSTANTS
  Custom,     (* backends of entry points and of custom_backends; the id   *)
              (* tells a backend from all others, whatever its name        *)
  MaxCustom   (* bound: how many of them are registered                    *)

ASSUME RegistryAssumption ==
  /\ \A b \in Custom :
       /\ {"id", "name", "models"} \subseteq DOMAIN b
       /\ b.id \notin {"vllm", "groq", "gemini", "mock", "ValueError"}
  /\ MaxCustom \in Nat

VARIABLES
  up,         (* backends that are available, by id                        *)
  backends,   (* _backends: the entries in their order                     *)
  modelMap,   (* _model_map                                                *)
  builtins,   (* those _register_builtin has still before it               *)
  log         (* history: what was registered, in order                    *)

registryVars == <<up, backends, modelMap, builtins, log>>

Backend(id, models) == [id |-> id, name |-> id, models |-> models]

(* supported_models() of the four; vLLM has none without a GPU. *)
Builtins(gpu) ==
  <<Backend("vllm", IF gpu THEN {"opt-125m"} ELSE {}),
    Backend("groq", {"llama"}),
    Backend("gemini", {"gemini"}),
    Backend("mock", {"*"})>>

Models == {"opt-125m", "llama", "gemini", "other"}

RegistryInit ==
  /\ \E keys \in SUBSET {"vllm", "groq", "gemini"} :
       /\ up = keys \union {"mock"} \union {b.id : b \in Custom}
       /\ builtins = Builtins("vllm" \in keys)
  /\ backends = <<>>
  /\ modelMap = <<>>
  /\ log = <<>>

(* A dict keeps the place of a key that is set again. *)
SetEntry(b) ==
  IF \E i \in DOMAIN backends : backends[i].name = b.name
  THEN [i \in DOMAIN backends |-> IF backends[i].name = b.name THEN b ELSE backends[i]]
  ELSE Append(backends, b)

(* Mutant of Mapped: the first backend keeps its models. *)
MappedFirst(b) ==
  [m \in DOMAIN modelMap \union (b.models \ {"*"}) |->
     IF m \in DOMAIN modelMap THEN modelMap[m] ELSE b.name]

Mapped(b) ==
  [m \in DOMAIN modelMap \union (b.models \ {"*"}) |->
     IF m \in b.models THEN b.name ELSE modelMap[m]]

Register(b) ==
  /\ backends' = SetEntry(b)
  /\ modelMap' = Mapped(b)
  /\ log' = Append(log, b)
  /\ UNCHANGED up

RegisterBuiltin ==
  /\ builtins # <<>>
  /\ Register(Head(builtins))
  /\ builtins' = Tail(builtins)

(* Entry points, then the paths of the configuration; one that cannot be   *)
(* loaded is passed over.                                                  *)
RegisterCustom(b) ==
  /\ builtins = <<>>
  /\ Len(log) < 4 + MaxCustom
  /\ Register(b)
  /\ UNCHANGED builtins

(* set_registry builds everything anew. *)
Rebuild ==
  /\ builtins = <<>>
  /\ builtins' = Builtins("vllm" \in up)
  /\ backends' = <<>>
  /\ modelMap' = <<>>
  /\ log' = <<>>
  /\ UNCHANGED up

(* A backend of a third party comes or goes. *)
Changes(b) ==
  /\ up' = IF b.id \in up THEN up \ {b.id} ELSE up \union {b.id}
  /\ UNCHANGED <<backends, modelMap, builtins, log>>

RegistryNext ==
  \/ RegisterBuiltin
  \/ \E b \in Custom : RegisterCustom(b) \/ Changes(b)
  \/ Rebuild

RegistrySpec == RegistryInit /\ [][RegistryNext]_registryVars

(***************************************************************************)
(* ModelRegistry.run: the backend that answers, or "ValueError".           *)
(***************************************************************************)

Named(name) == CHOOSE b \in ToSet(backends) : b.name = name

First(S) == CHOOSE i \in S : \A j \in S : i <= j

Wildcards == {i \in DOMAIN backends : "*" \in backends[i].models
                                     /\ backends[i].id \in up}

(* Mutant of Fallback: only models nobody lists fall back. *)
FallbackUnmapped(m) ==
  IF m \in DOMAIN modelMap \/ Wildcards = {} THEN "ValueError"
  ELSE backends[First(Wildcards)].id

Fallback(m) ==
  IF Wildcards = {} THEN "ValueError" ELSE backends[First(Wildcards)].id

Route(m) ==
  IF m \in DOMAIN modelMap /\ Named(modelMap[m]).id \in up
  THEN Named(modelMap[m]).id
  ELSE Fallback(m)

(***************************************************************************)
(* Properties.                                                             *)
(***************************************************************************)

RegistryTypeOK ==
  /\ IsInjective([i \in DOMAIN backends |-> backends[i].name])
  /\ \A m \in DOMAIN modelMap : \E b \in ToSet(backends) : b.name = modelMap[m]

(* The last of a set of places in the log, 0 if there is none. *)
Last1(S) == IF S = {} THEN 0 ELSE CHOOSE i \in S : \A j \in S : j <= i

(* The backend that has the name of the i-th one now. *)
Successor(i) == Last1({j \in DOMAIN log : log[j].name = log[i].name})

(* The registered backends that list a model and are available. *)
Matches(m) == {b \in ToSet(backends) : m \in b.models /\ b.id \in up}

(* backend_loader.py 131-132: later registrations override earlier ones.   *)
(* Told from the order of registration alone: the last backend that lists  *)
(* a model owns it, in the person of the last backend of that name, which  *)
(* answers if it is available and lists the model itself.  If it is not    *)
(* available and nobody else that lists the model is, the wildcard whose   *)
(* name came first answers.  Where the code does otherwise than its        *)
(* docstrings say, this says nothing: see ExactMatchFirst.                 *)
RoutesAsRegistered ==
  \A m \in Models :
    LET owner == Last1({i \in DOMAIN log : m \in log[i].models})
        owned == owner # 0 /\ log[Successor(owner)].id \in up
        wild  == {i \in DOMAIN log :
                    /\ "*" \in log[Successor(i)].models
                    /\ log[Successor(i)].id \in up}
    IN /\ owned /\ m \in log[Successor(owner)].models
            => Route(m) = log[Successor(owner)].id
       /\ ~owned /\ Matches(m) = {}
            => Route(m) = IF wild = {} THEN "ValueError"
                          ELSE log[Successor(First(wild))].id

(* models/registry.py 46-50: "Exact model_id match from an available       *)
(* backend" comes first, and the wildcard "if no exact match"; so does the *)
(* docstring of execution.py 55-59.                                        *)
ExactMatchFirst ==
  \A m \in Models :
    builtins = <<>> /\ Matches(m) # {} => \E b \in Matches(m) : Route(m) = b.id

(* While no other backend has taken its name, the mock backend answers     *)
(* what nobody else does: inference never ends in ValueError.              *)
AlwaysAnswered ==
  /\ builtins = <<>>
  /\ \A i \in DOMAIN log : log[i].name = "mock" => log[i].id = "mock"
  => \A m \in Models : Route(m) # "ValueError"
===============================================================================
