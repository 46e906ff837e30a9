------------------------------- MODULE Settings -------------------------------
(***************************************************************************)
(* ollama_config.resolve_config: what one key comes to, given the values   *)
(* that the environment, the repository's TOML, the user's TOML and, for   *)
(* two keys, a generic environment variable have for it.  The files change *)
(* between two runs; each run resolves them anew.                          *)
(*                                                                         *)
(* A value is known by what the resolver tells apart: not there, the empty *)
(* string, something of another type that is falsy (an empty array) or is  *)
(* not, or one of the key's own values.  A capability's keys are all alike *)
(* and one stands for the seven.                                           *)
(***************************************************************************)
EXTENDS Naturals, Sequences, FiniteSets

CONSTANT Good  \* a key's own values

VARIABLES
  key,      \* the one looked at
  setting   \* its value in each layer

settingsVars == <<key, setting>>

ASSUME SettingsAssumption ==
  Good \cap {"absent", "empty", "falsy", "wrong", "default", "none", "error"} = {}

Keys == {"base_url", "api_key", "model", "structured", "stream", "number", "flag", "transport"}
Layers == <<"env", "repo", "global", "generic">>
Values == {"absent", "empty", "falsy", "wrong"} \cup Good

(* The environment holds strings only, and any string can be a host, a key *)
(* or a model; the generic variables are read for two keys.                *)
Possible(layer) ==
  CASE layer = "env" ->
         {"absent", "empty"} \cup Good
           \cup (IF key \in {"base_url", "api_key", "model"} THEN {} ELSE {"wrong"})
    [] layer = "generic" ->
         IF key \in {"base_url", "api_key"} THEN {"absent", "empty"} \cup Good ELSE {"absent"}
    [] OTHER -> Values

SettingsInit ==
  /\ key \in Keys
  /\ setting = [l \in {"env", "repo", "global", "generic"} |-> "absent"]

Edit(layer) ==
  /\ \E value \in Possible(layer) \ {setting[layer]} :
       setting' = [setting EXCEPT ![layer] = value]
  /\ UNCHANGED key

SettingsNext == \E layer \in DOMAIN setting : Edit(layer)

SettingsSpec == SettingsInit /\ [][SettingsNext]_settingsVars

-----------------------------------------------------------------------------

(* What counts as a setting, by the test of the code. *)
Truthy == {"wrong"} \cup Good
There == Values \ {"absent"}
NotEmpty == Values \ {"absent", "empty"}

(* The first value that counts, or otherwise. *)
First(layers, counting, otherwise) ==
  LET there == {i \in DOMAIN layers : setting[layers[i]] \in counting}
  IN IF there = {} THEN otherwise
     ELSE setting[layers[CHOOSE i \in there : \A j \in there : i <= j]]

OfItsType(value) == IF value \in Good THEN value ELSE "error"

Typed(value) == IF value = "default" THEN value ELSE OfItsType(value)

(* Mutant: a layer's value is only checked for being there. *)
UrlUnchecked(layers) == First(layers, Truthy, "default")

(* Mutant: every layer's value is checked before one is chosen. *)
UrlAllChecked(layers) ==
  IF \E i \in DOMAIN layers : setting[layers[i]] = "wrong" THEN "error"
  ELSE Typed(First(layers, Truthy, "default"))

(* The loop over the candidates for base_url: the first that is truthy,    *)
(* and only that one is checked.                                           *)
Url(layers) == Typed(First(layers, Truthy, "default"))

(* Mutant: an empty key is no key, and the next layer is asked. *)
KeyNotEmpty(layers) == Typed(First(layers, NotEmpty, "default"))

(* The chain of tests for api_key: the first layer that has it, where an   *)
(* empty one is no key.                                                    *)
ApiKey(layers) ==
  LET found == First(layers, There, "default")
  IN IF found = "empty" THEN "none" ELSE Typed(found)

(* _first_present, _resolve_int and _resolve_bool: the first that is there *)
(* and is not the empty string.                                            *)
Present(layers) == Typed(First(layers, NotEmpty, "default"))

(* stream: an empty string is an override in a file, and not a valid one.  *)
Stream(layers) ==
  IF setting["env"] \in NotEmpty THEN OfItsType(setting["env"])
  ELSE Typed(First(Tail(layers), There, "default"))

Resolved ==
  LET own == SubSeq(Layers, 1, 3)
  IN CASE key = "base_url" -> Url(Layers)
       [] key = "api_key" -> ApiKey(Layers)
       [] key = "stream" -> Stream(own)
       [] key = "transport" -> Url(own)
       [] OTHER -> Present(own)

-----------------------------------------------------------------------------

(* resolve_config returns a value of the key's type or the default, or     *)
(* raises: a value of another type gets no further.                        *)
SettingsTypeOK ==
  /\ key \in Keys
  /\ \A layer \in DOMAIN setting : setting[layer] \in Possible(layer)
  /\ Resolved \in Good \cup {"default", "none", "error"}

Decisive(value) == value \in {"wrong"} \cup Good

Above(i, value) == \E j \in 1..(i - 1) : setting[Layers[j]] = value

(* README.md, "Layered precedence": the first layer that sets the key      *)
(* decides, an API key can be taken away by setting it empty, and only a   *)
(* malformed value above the deciding layer can keep it from deciding.     *)
Precedence ==
  \A i \in 1..Len(Layers) :
    LET value == setting[Layers[i]]
        undecided == \A j \in 1..(i - 1) : ~Decisive(setting[Layers[j]])
        malformed == Above(i, "falsy") \/ (key = "stream" /\ Above(i, "empty"))
        removed == key = "api_key" /\ (value = "empty" \/ Above(i, "empty"))
    IN undecided /\ (Decisive(value) \/ removed) =>
         \/ Resolved = IF removed THEN "none" ELSE OfItsType(value)
         \/ malformed /\ Resolved = "error"

(* What a layer holds is of no consequence, not even an error, once one    *)
(* above it has decided.                                                   *)
ShadowedIsUnread ==
  [][\A i \in 1..Len(Layers) :
       /\ Decisive(setting[Layers[i]])
       /\ \A j \in 1..i : setting'[Layers[j]] = setting[Layers[j]]
       => Resolved' = Resolved]_settingsVars
===============================================================================
