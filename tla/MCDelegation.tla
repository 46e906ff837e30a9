---------------------------- MODULE MCDelegation ----------------------------
(* Small instances of Delegation. *)
EXTENDS Delegation

CONSTANTS a, b, c

Three == {a, b, c}
Streamers == {a, b}

(* One that streams and one that does not. *)
OneOfEach == {a, c}
Streamer == {a}
=============================================================================
