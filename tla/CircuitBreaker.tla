---------------------------- MODULE CircuitBreaker ----------------------------
(***************************************************************************)
(* circuit_breaker.py: the per-model breaker, one operator per public      *)
(* method (each runs under the breaker's own lock, so each is one step).   *)
(* A model's open_until is kept as the time left until it, in clock ticks, *)
(* and -1 when the dictionary has no entry; the failure count is kept up   *)
(* to the threshold, which is all it is ever compared with.                *)
(***************************************************************************)
EXTENDS Integers

CONSTANTS
  Models,     \* the models delegations are sent to
  Threshold,  \* consecutive failures that open a circuit
  Cooldown    \* ticks a circuit stays open

ASSUME BreakerAssumption ==
  /\ Threshold \in Nat \ {0}
  /\ Cooldown \in Nat \ {0}

VARIABLES
  fails,   \* _fails
  left,    \* _open_until
  probe    \* _half_open_probe

breakerVars == <<fails, left, probe>>

(* Types; a probe is reserved only while no cooldown runs. *)
BreakerTypeOK ==
  /\ fails \in [Models -> 0..Threshold]
  /\ left \in [Models -> -1..Cooldown]
  /\ probe \subseteq Models
  /\ \A m \in probe : left[m] = 0

BreakerInit ==
  /\ fails = [m \in Models |-> 0]
  /\ left = [m \in Models |-> -1]
  /\ probe = {}

OneMore(n) == IF n < Threshold THEN n + 1 ELSE n

(* Mutant: a failure ignores that it is the probe's. *)
FailureIgnoringProbe(m) ==
  /\ fails' = [fails EXCEPT ![m] = OneMore(fails[m])]
  /\ left' = [left EXCEPT ![m] =
                IF OneMore(fails[m]) = Threshold THEN Cooldown ELSE left[m]]
  /\ UNCHANGED probe

RecordFailure(m) ==
  IF m \in probe
    THEN /\ probe' = probe \ {m}
         /\ left' = [left EXCEPT ![m] = Cooldown]
         /\ UNCHANGED fails
    ELSE /\ fails' = [fails EXCEPT ![m] = OneMore(fails[m])]
         /\ left' = [left EXCEPT ![m] =
                       IF OneMore(fails[m]) = Threshold THEN Cooldown ELSE left[m]]
         /\ UNCHANGED probe

(* Mutant: a success forgets to close the circuit. *)
SuccessKeepingOpen(m) ==
  /\ probe' = probe \ {m}
  /\ fails' = [fails EXCEPT ![m] = 0]
  /\ UNCHANGED left

RecordSuccess(m) ==
  /\ probe' = probe \ {m}
  /\ fails' = [fails EXCEPT ![m] = 0]
  /\ left' = [left EXCEPT ![m] = -1]

(* Mutant: the cooldown restarts, the reservation stays. *)
RearmProbes(M) ==
  /\ left' = [m \in Models |-> IF m \in M \cap probe THEN Cooldown ELSE left[m]]
  /\ UNCHANGED <<fails, probe>>

(* ReleaseProbe for a whole set: run_batch calls it for every eligible job. *)
ReleaseProbes(M) ==
  /\ probe' = probe \ M
  /\ left' = [m \in Models |-> IF m \in M \cap probe THEN Cooldown ELSE left[m]]
  /\ UNCHANGED fails

IsDefinitivelyOpen(m) == m \in probe \/ left[m] > 0

(* try_enter's verdict, and the reservation it makes with "probe". *)
Verdict(m) ==
  IF IsDefinitivelyOpen(m) THEN "open"
  ELSE IF left[m] = -1 THEN "closed" ELSE "probe"

TryEnter(m) ==
  /\ probe' = IF Verdict(m) = "probe" THEN probe \cup {m} ELSE probe
  /\ UNCHANGED <<fails, left>>

(* The monotonic clock advances for every model at once. *)
Elapse ==
  /\ left' = [m \in Models |-> IF left[m] > 0 THEN left[m] - 1 ELSE left[m]]
  /\ UNCHANGED <<fails, probe>>

(* A circuit has an open_until, or a probe, only after Threshold failures  *)
(* that no success has followed.                                           *)
OpenOnlyAfterThreshold ==
  \A m \in Models : left[m] # -1 \/ m \in probe => fails[m] = Threshold /\ left[m] # -1
==============================================================================
