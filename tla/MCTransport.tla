----------------------------- MODULE MCTransport -----------------------------
(* A delegation of each kind. *)
EXTENDS Transport

Schema == [schema |-> TRUE, stream |-> FALSE]
Verbatim == [schema |-> FALSE, stream |-> FALSE]
Streamed == [schema |-> FALSE, stream |-> TRUE]

AllKinds == {Schema, Verbatim, Streamed}
StreamedOnly == {Streamed}
=============================================================================
