------------------------------ MODULE Transport ------------------------------
(***************************************************************************)
(* One delegation: run_ollama.dispatch with its parse retry, over          *)
(* backend.OllamaBackend.run or ollama_stream.stream_run with their        *)
(* downgrade and their 429 backoff, all under one deadline.                *)
(*                                                                         *)
(* The endpoint answers as it likes; a request and its answer are one      *)
(* step that takes time.  urllib's timeout bounds one wait for the socket, *)
(* and a body may take any number of them: Waits, the waits of a request   *)
(* or of a read, is a bound of the model and none of the code.  The        *)
(* deadline that stream_run derives is the one of dispatch.  Prompts,      *)
(* contents and the token counts are left out, and so is transcribe, which *)
(* does not go through dispatch.                                           *)
(***************************************************************************)
EXTENDS Integers

CONSTANTS
  Kinds,        \* the delegations considered: [schema, stream]
  Timeout,      \* --timeout: the deadline, counted from the start
  Floor,        \* the least socket timeout: 1 s
  IdleTimeout,  \* DEFAULT_IDLE_TIMEOUT
  MaxBackoffs,
  Delays,       \* the delays retry_after_delay may return
  MaxOutput,    \* max_output_bytes, in deltas
  Waits         \* the waits for the socket in one request or read

ASSUME TransportAssumption ==
  /\ Kinds \subseteq [schema : BOOLEAN, stream : BOOLEAN]
  /\ \A k \in Kinds : ~(k.schema /\ k.stream)
  /\ Timeout \in Nat \ {0}
  /\ Floor \in Nat \ {0}
  /\ IdleTimeout \in Nat \ {0}
  /\ MaxBackoffs \in Nat
  /\ Delays \subseteq Nat
  /\ MaxOutput \in Nat \ {0}
  /\ Waits \in Nat \ {0}

VARIABLES
  kind,         \* of the delegation
  now,          \* seconds since its start
  stage,        \* where it is
  round,        \* dispatch's attempt: 0, or 1 for the parse retry
  downgraded,   \* response_format has been dropped in this round
  backoffs,     \* the 429s this request has backed off from
  socket,       \* the socket timeout of the request being streamed
  received,     \* deltas given to the sink
  answer,       \* the endpoint's latest
  outcome,      \* what dispatch returns or raises
  requests,     \* requests sent so far (saturated past RequestCap)
  late,         \* those sent after the deadline (saturated at 2)
  calls,        \* TokenStats: http_calls
  delegations   \* TokenStats: delegations

progress == <<round, downgraded, backoffs>>
stats == <<calls, delegations>>
transportVars == <<kind, now, stage, progress, socket, received, answer,
                   outcome, requests, late, stats>>

Stages == {"attempt", "request", "read", "judge", "done"}
Answers == {"none", "valid", "invalid", "429", "400", "failure"}
Outcomes == {"none", "ok", "invalid", "backend_error", "rate_limited",
             "timeout", "sink_error"}

-----------------------------------------------------------------------------
AtLeast(n, least) == IF n < least THEN least ELSE n
AtMost(n, most) == IF n > most THEN most ELSE n

(* eff_timeout *)
SocketTimeout ==
  AtLeast(IF kind.stream THEN AtMost(Timeout - now, IdleTimeout)
                         ELSE Timeout - now, Floor)

(* Two rounds for the strict schema, two formats, one first try and the    *)
(* backoffs.                                                               *)
Rounds == IF kind.schema THEN 2 ELSE 1
RequestCap == Rounds * 2 * (MaxBackoffs + 1)

-----------------------------------------------------------------------------
TransportInit ==
  /\ kind \in Kinds
  /\ now = 0
  /\ stage = "attempt"
  /\ round = 0
  /\ downgraded = FALSE
  /\ backoffs = 0
  /\ socket = 0
  /\ received = 0
  /\ answer = "none"
  /\ outcome = "none"
  /\ requests = 0
  /\ late = 0
  /\ calls = 0
  /\ delegations = 0

End(result) ==
  /\ stage' = "done"
  /\ outcome' = result
  /\ socket' = 0
  /\ UNCHANGED progress

GoOn(label) ==
  /\ stage' = label
  /\ socket' = 0
  /\ UNCHANGED outcome

(* dispatch, at the head of its loop. *)
Attempt ==
  /\ stage = "attempt"
  /\ IF now >= Timeout
       THEN End("backend_error")
       ELSE GoOn("request") /\ UNCHANGED progress
  /\ UNCHANGED <<kind, now, received, answer, requests, late, stats>>

(* When the answer to a request may arrive. *)
Arrivals == now .. (now + Waits * SocketTimeout)

(* A request is sent and answered with a. *)
Exchange(a) ==
  /\ stage = "request"
  /\ answer' = a
  /\ requests' = IF requests > RequestCap THEN requests ELSE requests + 1
  /\ late' = IF now > Timeout /\ late < 2 THEN late + 1 ELSE late
  /\ UNCHANGED <<kind, received, stats>>

(* A usable response: all of it, or the head of a stream. *)
Respond ==
  /\ \E a \in {"valid", "invalid"} : Exchange(a)
  /\ now' \in Arrivals
  /\ IF kind.stream
       THEN stage' = "read" /\ socket' = SocketTimeout /\ UNCHANGED outcome
       ELSE GoOn("judge")
  /\ UNCHANGED progress

(* Whatever is mapped to a domain error: a status, a lost connection, a    *)
(* body that is too large or no answer, a silent socket.                   *)
Fail ==
  /\ Exchange("failure")
  /\ now' \in Arrivals
  /\ \/ End("backend_error")
     \/ now' >= now + SocketTimeout /\ End("timeout")

(* Mutant: there is always a format to fall back to. *)
FormatsNeverRunOut == FALSE

FormatsRunOut == downgraded

(* A 400 that names the response format, whatever was sent. *)
Reject ==
  /\ Exchange("400")
  /\ now' \in Arrivals
  /\ IF FormatsRunOut
       THEN End("backend_error")
       ELSE /\ GoOn("request")
            /\ downgraded' = TRUE
            /\ backoffs' = 0
            /\ UNCHANGED round

(* How the two transports raise a 429 they no longer back off from. *)
RateLimitRaised == IF kind.stream THEN "backend_error" ELSE "rate_limited"

(* Mutant: the sleep may outlast the deadline. *)
BacksOffPastIt(wake) == backoffs < MaxBackoffs

(* Mutant: one backoff too many. *)
BacksOffOnceMore(wake) == backoffs <= MaxBackoffs /\ wake <= Timeout

(* Backoffs are left, and the sleep ends by the deadline. *)
BacksOff(wake) == backoffs < MaxBackoffs /\ wake <= Timeout

(* A 429: sleep and send the request again, or give up. *)
Throttle ==
  /\ Exchange("429")
  /\ \E t \in Arrivals, delay \in Delays :
       \/ /\ BacksOff(t + delay)
          /\ now' = t + delay
          /\ backoffs' = backoffs + 1
          /\ GoOn("request")
          /\ UNCHANGED <<round, downgraded>>
       \/ /\ ~BacksOff(t + delay)
          /\ now' = t
          /\ End(RateLimitRaised)

-----------------------------------------------------------------------------
(* One turn of _consume's loop: a read, and the delta it completes. *)
Read ==
  /\ stage = "read"
  /\ now <= Timeout
  /\ now' \in now .. (now + Waits * socket)
  /\ \/ /\ received' = received + 1
        /\ \/ /\ received + 1 < MaxOutput
              /\ UNCHANGED <<stage, progress, socket, outcome>>
           \/ received + 1 = MaxOutput /\ GoOn("judge") /\ UNCHANGED progress
           \/ End("sink_error")
     \/ /\ UNCHANGED received
        /\ \/ now' > now /\ UNCHANGED <<stage, progress, socket, outcome>>
           \/ GoOn("judge") /\ UNCHANGED progress
           \/ End("backend_error")
           \/ now' >= now + socket /\ End("timeout")
  /\ UNCHANGED <<kind, answer, requests, late, stats>>

(* The deadline has passed by the time of the next read. *)
ReadTooLate ==
  /\ stage = "read"
  /\ now > Timeout
  /\ End("timeout")
  /\ UNCHANGED <<kind, now, received, answer, requests, late, stats>>

(* Mutant: the retry counts as a delegation of its own. *)
RecordTwice ==
  /\ calls' = calls + 1
  /\ delegations' = delegations + 1

(* TokenStats.record *)
Record ==
  /\ calls' = calls + 1
  /\ delegations' = IF round = 0 THEN delegations + 1 ELSE delegations

(* The call has returned: it is billed, and with the strict schema parsed  *)
(* and validated, once more if that fails.                                 *)
Judge ==
  /\ stage = "judge"
  /\ Record
  /\ IF ~kind.schema \/ answer = "valid" THEN End("ok")
     ELSE IF round = 1 THEN End("invalid")
     ELSE /\ GoOn("attempt")
          /\ round' = 1
          /\ downgraded' = FALSE
          /\ backoffs' = 0
  /\ UNCHANGED <<kind, now, received, answer, requests, late>>

TransportNext ==
  \/ Attempt \/ Respond \/ Fail \/ Reject \/ Throttle
  \/ Read \/ ReadTooLate \/ Judge

TransportSpec == TransportInit /\ [][TransportNext]_transportVars

(* Every call to the endpoint or to sleep returns. *)
TransportFairSpec == TransportSpec /\ WF_transportVars(TransportNext)

-----------------------------------------------------------------------------
(* Type correctness, and the counters stay within their caps. *)
TransportTypeOK ==
  /\ kind \in Kinds
  /\ now \in Nat
  /\ stage \in Stages
  /\ round \in 0 .. (Rounds - 1)
  /\ downgraded \in BOOLEAN
  /\ backoffs \in 0 .. MaxBackoffs
  /\ socket \in Nat
  /\ received \in 0 .. MaxOutput
  /\ answer \in Answers
  /\ outcome \in Outcomes
  /\ requests \in 0 .. (RequestCap + 1)
  /\ late \in 0 .. 2
  /\ calls \in 0 .. 2
  /\ delegations \in 0 .. 2

(* architecture.md: "a total attempt cap".  The parse retry, the downgrade *)
(* and the backoffs together never send more requests than their product.  *)
CapsRequests == requests <= RequestCap

(* The parse retry, the downgrade and the backoffs share one deadline, and *)
(* the downgraded request alone does not look at it: however they follow   *)
(* on one another over both rounds, one request at most is sent late.      *)
OneLateRequest == late <= 1

(* backend.py: "a call plus a retry can never together exceed the          *)
(* delegation deadline", but for the second below which no timeout goes;   *)
(* ollama_stream.py: "the ~1s overshoot never compounds".  The run checks  *)
(* it where each request and each read waits once: Waits = 1.              *)
HardDeadline == now <= Timeout + Floor

(* R12: a delegation is counted once if any of its calls returned, however *)
(* it ends, and one that succeeds has been billed.                         *)
BillsOnce ==
  /\ delegations = IF calls > 0 THEN 1 ELSE 0
  /\ outcome \in {"ok", "invalid"} => calls = round + 1

(* Every delegation ends. *)
Ends == <>(stage = "done")
=============================================================================
