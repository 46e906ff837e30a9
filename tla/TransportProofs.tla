--------------------------- MODULE TransportProofs ---------------------------
(***************************************************************************)
(* Theorems about Transport, for any timeouts, number of backoffs, delays, *)
(* output cap and waits for the socket.                                    *)
(***************************************************************************)
EXTENDS Transport, TLAPS

USE TransportAssumption

Going == {"attempt", "request", "read", "judge"}

(* Only a downgraded request is sent after the deadline, and after it      *)
(* nothing is sent any more.                                               *)
InTime ==
  /\ stage = "request" => late = 0 /\ (now > Timeout => downgraded)
  /\ late # 0 => late = 1 /\ now > Timeout

(* The formats tried before the current one, over both rounds. *)
Formats == 2 * round + (IF downgraded THEN 1 ELSE 0)

Sent == Formats * (MaxBackoffs + 1) + backoffs

(* One request more has been sent once there is an answer. *)
InQuota ==
  /\ stage = "attempt" => requests <= Formats * (MaxBackoffs + 1)
  /\ stage = "request" => requests <= Sent
  /\ requests <= Sent + 1

(* Nothing is billed in a round before its answer has been judged, and     *)
(* only what is to be judged is an answer of the model.                    *)
InRound ==
  /\ stage \in Going => calls = round /\ outcome = "none"
  /\ stage = "attempt" => answer \in {"none", "invalid"} /\ ~downgraded /\ backoffs = 0
  /\ stage \in {"read", "judge"} => answer \in {"valid", "invalid"}
  /\ calls <= round + 1

(* A stream ends when its output reaches the cap. *)
InCap ==
  /\ ~kind.stream \/ stage \in {"attempt", "request"} => received = 0
  /\ stage = "read" => kind.stream /\ received < MaxOutput

IInv ==
  /\ TransportTypeOK
  /\ InTime /\ InQuota /\ InRound /\ InCap
  /\ BillsOnce

-----------------------------------------------------------------------------
LEMMA Kind == TransportTypeOK => /\ kind.stream \in BOOLEAN /\ kind.schema \in BOOLEAN
                        /\ ~(kind.stream /\ kind.schema)
BY DEF TransportTypeOK

LEMMA SocketType == TransportTypeOK => SocketTimeout \in Nat /\ SocketTimeout >= Floor
BY Kind DEF TransportTypeOK, SocketTimeout, AtLeast, AtMost

LEMMA Times ==
  ASSUME NEW w \in Nat \ {0}, NEW x \in Nat
  PROVE  w * x \in Nat /\ w * x >= x
<1>1. w - 1 \in Nat
  OBVIOUS
<1>2. (w - 1) * x \in Nat
  BY <1>1
<1>3. w * x = (w - 1) * x + x
  OBVIOUS
<1>4. QED
  BY <1>2, <1>3

-----------------------------------------------------------------------------
LEMMA InitInv == TransportInit => IInv
<1> SUFFICES ASSUME TransportInit PROVE IInv
  OBVIOUS
<1> USE DEF TransportInit
<1>1. TransportTypeOK
  <2>1. Rounds \in {1, 2} /\ RequestCap \in Nat
    BY Times DEF Rounds, RequestCap
  <2>2. 0 \in 0 .. (Rounds - 1) /\ 0 \in 0 .. (RequestCap + 1)
    BY <2>1
  <2>3. 0 \in 0 .. MaxBackoffs /\ 0 \in 0 .. MaxOutput /\ 0 \in 0 .. 2
    OBVIOUS
  <2>4. QED
    BY <2>2, <2>3 DEF TransportTypeOK, Stages, Answers, Outcomes
<1>2. InTime
  BY DEF InTime
<1>3. InQuota
  BY DEF InQuota, Formats, Sent
<1>4. InRound /\ InCap /\ BillsOnce
  BY DEF InRound, InCap, BillsOnce, Going
<1>5. QED
  BY <1>1, <1>2, <1>3, <1>4 DEF IInv

(* The constants of a delegation. *)
LEMMA Fixed == TransportTypeOK => Rounds \in {1, 2} /\ RequestCap \in Nat
BY Times DEF Rounds, RequestCap

LEMMA KindStays ==
  [TransportNext]_transportVars
    => kind' = kind /\ Rounds' = Rounds /\ RequestCap' = RequestCap
<1> SUFFICES ASSUME [TransportNext]_transportVars PROVE kind' = kind
  BY DEF Rounds, RequestCap
<1>1. QED
  BY DEF TransportNext, transportVars, Attempt, Respond, Fail, Reject, Throttle, Read, ReadTooLate,
         Judge, Exchange

LEMMA ArrivalType ==
  ASSUME TransportTypeOK, NEW t \in Arrivals
  PROVE  t \in Nat /\ now <= t /\ t <= now + Waits * SocketTimeout
BY SocketType, Times DEF TransportTypeOK, Arrivals

LEMMA ExchangeType ==
  ASSUME TransportTypeOK, NEW a \in Answers, Exchange(a)
  PROVE  /\ answer' \in Answers
         /\ requests' \in 0 .. (RequestCap + 1)
         /\ requests' <= requests + 1
         /\ late' \in 0 .. 2
         /\ UNCHANGED <<kind, received, calls, delegations>>
BY Fixed DEF TransportTypeOK, Exchange, stats

(* Type correctness needs to know what the rounds allow to be billed. *)
LEMMA TypeStep ==
  TransportTypeOK /\ InRound /\ InCap /\ BillsOnce /\ [TransportNext]_transportVars
    => TransportTypeOK'
<1> SUFFICES ASSUME TransportTypeOK, InRound, InCap, BillsOnce, [TransportNext]_transportVars
             PROVE  TransportTypeOK'
  OBVIOUS
<1>0. Rounds' = Rounds /\ RequestCap' = RequestCap /\ Rounds \in {1, 2}
  BY KindStays, Fixed
<1> USE DEF Stages, Answers, Outcomes
<1>1. CASE Attempt
  BY <1>0, <1>1 DEF TransportTypeOK, Attempt, End, GoOn, progress, stats
<1>2. CASE Respond
  <2>1. PICK a \in {"valid", "invalid"} : Exchange(a)
    BY <1>2 DEF Respond
  <2>2. now' \in Nat
    BY <1>2, ArrivalType DEF Respond
  <2>3. UNCHANGED progress /\ stage' \in {"read", "judge"} /\ socket' \in Nat /\ outcome' = outcome
    BY <1>2, SocketType DEF Respond, GoOn
  <2>4. QED
    BY <1>0, <2>1, <2>2, <2>3, ExchangeType DEF TransportTypeOK, progress
<1>3. CASE Fail
  <2>1. Exchange("failure") /\ now' \in Nat
    BY <1>3, ArrivalType DEF Fail
  <2>2. stage' = "done" /\ socket' = 0 /\ outcome' \in Outcomes /\ UNCHANGED progress
    BY <1>3 DEF Fail, End
  <2>3. QED
    BY <1>0, <2>1, <2>2, ExchangeType DEF TransportTypeOK, progress
<1>4. CASE Reject
  <2>1. Exchange("400") /\ now' \in Nat
    BY <1>4, ArrivalType DEF Reject
  <2>2. /\ stage' \in {"done", "request"} /\ socket' = 0 /\ outcome' \in Outcomes
        /\ round' = round /\ downgraded' \in BOOLEAN /\ backoffs' \in {0, backoffs}
    BY <1>4 DEF TransportTypeOK, Reject, FormatsRunOut, End, GoOn, progress
  <2>3. QED
    BY <1>0, <2>1, <2>2, ExchangeType DEF TransportTypeOK
<1>5. CASE Throttle
  <2>1. PICK t \in Arrivals, delay \in Delays :
          \/ /\ BacksOff(t + delay)
             /\ now' = t + delay
             /\ backoffs' = backoffs + 1
             /\ GoOn("request")
             /\ UNCHANGED <<round, downgraded>>
          \/ /\ ~BacksOff(t + delay)
             /\ now' = t
             /\ End(RateLimitRaised)
    BY <1>5 DEF Throttle
  <2>2. Exchange("429") /\ t \in Nat /\ delay \in Nat
    BY <1>5, ArrivalType DEF Throttle
  <2>3. /\ now' \in Nat
        /\ stage' \in {"done", "request"} /\ socket' = 0 /\ outcome' \in Outcomes
        /\ round' = round /\ downgraded' = downgraded /\ backoffs' \in 0 .. MaxBackoffs
    BY <2>1, <2>2
    DEF TransportTypeOK, End, GoOn, progress, RateLimitRaised, BacksOff
  <2>4. QED
    BY <1>0, <2>2, <2>3, ExchangeType DEF TransportTypeOK
<1>6. CASE Read
  <2>1. Waits * socket \in Nat
    BY Times DEF TransportTypeOK
  <2>2. now' \in Nat
    BY <1>6, <2>1 DEF TransportTypeOK, Read
  <2>3. /\ received' \in 0 .. MaxOutput
        /\ stage' \in {"read", "judge", "done"} /\ socket' \in Nat /\ outcome' \in Outcomes
        /\ UNCHANGED progress
    BY <1>6 DEF TransportTypeOK, InCap, Read, End, GoOn
  <2>4. QED
    BY <1>0, <1>6, <2>2, <2>3 DEF TransportTypeOK, Read, progress, stats
<1>7. CASE ReadTooLate
  BY <1>0, <1>7 DEF TransportTypeOK, ReadTooLate, End, progress, stats
<1>8. CASE Judge
  <2>1. calls = round /\ calls' \in 0 .. 2 /\ delegations' \in 0 .. 2
    BY <1>0, <1>8 DEF TransportTypeOK, InRound, BillsOnce, Going, Judge, Record
  <2>2. /\ stage' \in {"attempt", "done"} /\ socket' = 0 /\ outcome' \in Outcomes
        /\ downgraded' \in BOOLEAN /\ backoffs' \in {0, backoffs}
    BY <1>8 DEF TransportTypeOK, Judge, End, GoOn, progress
  <2>3. round' \in 0 .. (Rounds - 1)
    <3>1. CASE round' = round
      BY <1>0, <3>1 DEF TransportTypeOK
    <3>2. CASE kind.schema /\ round' = 1
      <4>1. Rounds = 2
        BY <3>2 DEF Rounds
      <4>2. QED
        BY <3>2, <4>1
    <3>3. QED
      BY <1>8, <3>1, <3>2 DEF Judge, End, progress
  <2>4. UNCHANGED <<kind, now, received, answer, requests, late>>
    BY <1>8 DEF Judge
  <2>5. QED
    BY <1>0, <2>1, <2>2, <2>3, <2>4 DEF TransportTypeOK
<1>9. CASE UNCHANGED transportVars
  BY <1>0, <1>9 DEF TransportTypeOK, transportVars, progress, stats
<1>10. QED
  BY <1>1, <1>2, <1>3, <1>4, <1>5, <1>6, <1>7, <1>8, <1>9 DEF TransportNext

-----------------------------------------------------------------------------
LEMMA TimeStep ==
  TransportTypeOK /\ InTime /\ [TransportNext]_transportVars
    => InTime'
<1> SUFFICES ASSUME TransportTypeOK, InTime, [TransportNext]_transportVars
             PROVE  InTime'
  OBVIOUS
<1>0. now \in Nat /\ late \in 0 .. 2
  BY DEF TransportTypeOK
(* Time goes on, and nothing else can turn a request sent in time late. *)
<1>a. ASSUME UNCHANGED late, now' \in Nat, now' >= now, stage' # "request"
      PROVE  InTime'
  BY <1>0, <1>a DEF InTime
(* Of the requests only a downgraded one is sent late. *)
<1>b. ASSUME NEW a \in Answers, Exchange(a)
      PROVE  /\ now <= Timeout => late' = 0
             /\ now > Timeout => late' = 1 /\ downgraded
  BY <1>0, <1>b DEF InTime, Exchange
<1>c. ASSUME NEW a \in Answers, Exchange(a), now' \in Nat, now' >= now,
             stage' # "request"
      PROVE  InTime'
  BY <1>0, <1>b, <1>c DEF InTime
<1>1. CASE Attempt
  <2>1. UNCHANGED <<now, late>> /\ stage = "attempt"
    BY <1>1 DEF Attempt
  <2>2. stage' = "request" => now < Timeout /\ late = 0
    BY <1>0, <1>1, <2>1 DEF InTime, Attempt, End, GoOn
  <2>3. QED
    BY <1>0, <2>1, <2>2 DEF InTime
<1>2. CASE Respond
  <2>1. PICK a \in {"valid", "invalid"} : Exchange(a)
    BY <1>2 DEF Respond
  <2>2. now' \in Nat /\ now' >= now /\ stage' # "request"
    BY <1>2, ArrivalType DEF Respond, GoOn
  <2>3. QED
    BY <1>c, <2>1, <2>2 DEF Answers
<1>3. CASE Fail
  <2>1. Exchange("failure") /\ now' \in Nat /\ now' >= now /\ stage' # "request"
    BY <1>3, ArrivalType DEF Fail, End
  <2>2. QED
    BY <1>c, <2>1 DEF Answers
<1>4. CASE Reject
  <2>1. Exchange("400") /\ now' \in Nat /\ now' >= now
    BY <1>4, ArrivalType DEF Reject
  <2>2. CASE downgraded
    <3>1. stage' = "done"
      BY <1>4, <2>2 DEF Reject, FormatsRunOut, End
    <3>2. QED
      BY <1>c, <2>1, <3>1 DEF Answers
  <2>3. CASE ~downgraded
    <3>1. downgraded'
      BY <1>4, <2>3 DEF Reject, FormatsRunOut
    <3>2. late' = 0
      BY <1>0, <1>b, <2>1, <2>3 DEF Answers
    <3>3. QED
      BY <3>1, <3>2 DEF InTime
  <2>4. QED
    BY <2>2, <2>3
<1>5. CASE Throttle
  <2>1. Exchange("429")
    BY <1>5 DEF Throttle
  <2>2. PICK t \in Arrivals, delay \in Delays :
          \/ now' = t + delay /\ t + delay <= Timeout /\ stage' = "request"
          \/ now' = t /\ stage' = "done"
    BY <1>5 DEF Throttle, BacksOff, End, GoOn
  <2>3. t \in Nat /\ t >= now /\ delay \in Nat
    BY ArrivalType
  <2>4. CASE stage' = "done"
    BY <1>c, <2>1, <2>2, <2>3, <2>4 DEF Answers
  <2>5. CASE now' = t + delay /\ t + delay <= Timeout
    <3>1. now <= Timeout /\ now' <= Timeout /\ now' \in Nat
      BY <1>0, <2>3, <2>5
    <3>2. late' = 0
      BY <1>b, <2>1, <3>1 DEF Answers
    <3>3. QED
      BY <3>1, <3>2 DEF InTime
  <2>6. QED
    BY <2>2, <2>4, <2>5
<1>6. CASE Read
  <2>1. Waits * socket \in Nat
    BY Times DEF TransportTypeOK
  <2>2. now' \in Nat /\ now' >= now /\ late' = late
    BY <1>0, <1>6, <2>1 DEF Read
  <2>3. stage' # "request"
    BY <1>6 DEF Read, End, GoOn
  <2>4. QED
    BY <1>a, <2>2, <2>3
<1>7. CASE ReadTooLate
  BY <1>0, <1>7, <1>a DEF ReadTooLate, End
<1>8. CASE Judge
  BY <1>0, <1>8, <1>a DEF Judge, End, GoOn
<1>9. CASE UNCHANGED transportVars
  BY <1>9 DEF InTime, transportVars, progress
<1>10. QED
  BY <1>1, <1>2, <1>3, <1>4, <1>5, <1>6, <1>7, <1>8, <1>9 DEF TransportNext
-----------------------------------------------------------------------------
LEMMA QuotaStep ==
  TransportTypeOK /\ InRound /\ InQuota /\ [TransportNext]_transportVars
    => InQuota'
<1> SUFFICES ASSUME TransportTypeOK, InRound, InQuota, [TransportNext]_transportVars
             PROVE  InQuota'
  OBVIOUS
<1> DEFINE K == MaxBackoffs + 1
<1>0. /\ round \in {0, 1} /\ backoffs \in 0 .. MaxBackoffs /\ requests \in Nat
      /\ downgraded \in BOOLEAN /\ K \in Nat
      /\ Formats \in 0 .. 3 /\ Formats * K \in Nat
      /\ Sent = Formats * K + backoffs
  <2>1. round \in {0, 1} /\ backoffs \in 0 .. MaxBackoffs /\ downgraded \in BOOLEAN
    BY Fixed DEF TransportTypeOK
  <2>2. requests \in Nat
    BY Fixed DEF TransportTypeOK
  <2>3. Formats \in 0 .. 3
    BY <2>1 DEF Formats
  <2>4. Formats * K \in Nat
    BY <2>3
  <2>5. QED
    BY <2>1, <2>2, <2>3, <2>4 DEF Sent
(* A format is given up with all its backoffs made, or fewer. *)
<1>a. Sent + 1 <= (Formats + 1) * K
  <2>1. (Formats + 1) * K = Formats * K + K
    BY <1>0
  <2>2. QED
    BY <1>0, <2>1
<1>b. ASSUME NEW a, Exchange(a)
      PROVE  requests' \in Nat /\ requests' <= requests + 1 /\ requests <= Sent
  BY <1>0, <1>b DEF Exchange, InQuota
(* The quota of what has ended is that of its last request. *)
<1>c. ASSUME progress' = progress, stage' \in {"read", "judge", "done"},
             requests' <= Sent + 1
      PROVE  InQuota'
  BY <1>c DEF InQuota, Sent, Formats, progress
<1>1. CASE Attempt
  <2>1. UNCHANGED <<progress, requests>> /\ requests <= Formats * K
    BY <1>1 DEF Attempt, End, GoOn, InQuota
  <2>2. Formats' = Formats /\ Sent' = Sent
    BY <2>1 DEF Formats, Sent, progress
  <2>3. stage' \in {"request", "done"}
    BY <1>1 DEF Attempt, End, GoOn
  <2>4. QED
    BY <1>0, <2>1, <2>2, <2>3 DEF InQuota
<1>2. CASE Respond
  <2>1. PICK a \in {"valid", "invalid"} : Exchange(a)
    BY <1>2 DEF Respond
  <2>2. requests' <= Sent + 1
    BY <1>0, <1>b, <2>1
  <2>3. UNCHANGED progress /\ stage' \in {"read", "judge"}
    BY <1>2 DEF Respond, GoOn
  <2>4. QED
    BY <1>c, <2>2, <2>3
<1>3. CASE Fail
  <2>1. requests' <= Sent + 1
    BY <1>0, <1>3, <1>b DEF Fail
  <2>2. UNCHANGED progress /\ stage' = "done"
    BY <1>3 DEF Fail, End
  <2>3. QED
    BY <1>c, <2>1, <2>2
<1>4. CASE Reject
  <2>1. requests' \in Nat /\ requests' <= Sent + 1
    BY <1>0, <1>4, <1>b DEF Reject
  <2>2. CASE downgraded
    <3>1. UNCHANGED progress /\ stage' = "done"
      BY <1>4, <2>2 DEF Reject, FormatsRunOut, End
    <3>2. QED
      BY <1>c, <2>1, <3>1
  <2>3. CASE ~downgraded
    <3>1. stage' = "request" /\ downgraded' = TRUE /\ backoffs' = 0 /\ round' = round
      BY <1>4, <2>3 DEF Reject, FormatsRunOut, GoOn
    <3>2. Formats' = Formats + 1
      BY <1>0, <2>3, <3>1 DEF Formats
    <3>3. Sent' = (Formats + 1) * K
      BY <1>0, <3>1, <3>2 DEF Sent
    <3>4. requests' <= Sent' /\ requests' <= Sent' + 1
      BY <1>0, <1>a, <2>1, <3>3
    <3>5. QED
      BY <3>1, <3>4 DEF InQuota
  <2>4. QED
    BY <1>0, <2>2, <2>3
<1>5. CASE Throttle
  <2>1. requests' \in Nat /\ requests' <= Sent + 1
    BY <1>0, <1>5, <1>b DEF Throttle
  <2>2. \/ /\ backoffs' = backoffs + 1 /\ stage' = "request"
           /\ UNCHANGED <<round, downgraded>>
        \/ stage' = "done" /\ UNCHANGED progress
    BY <1>5 DEF Throttle, GoOn, End
  <2>3. CASE stage' = "request"
    <3>1. Formats' = Formats /\ backoffs' = backoffs + 1
      BY <2>2, <2>3 DEF Formats
    <3>2. Sent' = Sent + 1 /\ Sent' \in Int
      BY <1>0, <3>1 DEF Sent
    <3>3. QED
      BY <2>1, <2>3, <3>2 DEF InQuota
  <2>4. CASE stage' = "done"
    BY <1>c, <2>1, <2>2, <2>4
  <2>5. QED
    BY <2>2, <2>3, <2>4
<1>6. CASE Read
  <2>1. UNCHANGED <<progress, requests>> /\ stage' \in {"read", "judge", "done"}
    BY <1>6 DEF Read, End, GoOn
  <2>2. QED
    BY <1>c, <2>1 DEF InQuota
<1>7. CASE ReadTooLate
  <2>1. UNCHANGED <<progress, requests>> /\ stage' = "done"
    BY <1>7 DEF ReadTooLate, End
  <2>2. QED
    BY <1>c, <2>1 DEF InQuota
<1>8. CASE Judge
  <2>1. requests' = requests /\ requests <= Sent + 1
    BY <1>8 DEF Judge, InQuota
  <2>2. CASE stage' = "done"
    <3>1. UNCHANGED progress
      BY <1>8, <2>2 DEF Judge, End, GoOn
    <3>2. QED
      BY <1>c, <2>1, <2>2, <3>1
  <2>3. CASE stage' = "attempt"
    <3>1. round # 1 /\ round' = 1 /\ downgraded' = FALSE /\ backoffs' = 0
      BY <1>8, <2>3 DEF Judge, End, GoOn
    <3>2. Formats' = 2 /\ Formats \in {0, 1} /\ Sent' = 2 * K
      BY <1>0, <3>1 DEF Formats, Sent
    <3>3. (Formats + 1) * K <= 2 * K
      BY <1>0, <3>2
    <3>4. requests <= 2 * K
      BY <1>0, <1>a, <2>1, <3>2, <3>3
    <3>5. QED
      BY <1>0, <2>1, <2>3, <3>2, <3>4 DEF InQuota
  <2>4. QED
    BY <1>8, <2>2, <2>3 DEF Judge, End, GoOn
<1>9. CASE UNCHANGED transportVars
  BY <1>9 DEF InQuota, Sent, Formats, transportVars, progress
<1>10. QED
  BY <1>1, <1>2, <1>3, <1>4, <1>5, <1>6, <1>7, <1>8, <1>9 DEF TransportNext
-----------------------------------------------------------------------------
LEMMA RoundStep ==
  TransportTypeOK /\ InRound /\ InCap /\ [TransportNext]_transportVars
    => InRound' /\ InCap'
<1> SUFFICES ASSUME TransportTypeOK, InRound, InCap, [TransportNext]_transportVars
             PROVE  InRound' /\ InCap'
  OBVIOUS
<1>0. round \in {0, 1} /\ kind.stream \in BOOLEAN /\ ~(kind.stream /\ kind.schema)
  BY Fixed, Kind DEF TransportTypeOK
<1> USE DEF InRound, InCap, Going
<1>1. CASE Attempt
  BY <1>1 DEF Attempt, End, GoOn, progress, stats
<1>2. CASE Respond
  <2>1. PICK a \in {"valid", "invalid"} : Exchange(a)
    BY <1>2 DEF Respond
  <2>2. /\ stage = "request" /\ answer' = a /\ UNCHANGED <<kind, received, calls, delegations>>
    BY <2>1 DEF Exchange, stats
  <2>3. /\ UNCHANGED <<round, outcome>>
        /\ stage' \in {"read", "judge"} /\ (stage' = "read" <=> kind.stream)
    BY <1>2 DEF Respond, GoOn, progress
  <2>4. received = 0 /\ 0 < MaxOutput
    BY <2>2
  <2>5. QED
    BY <2>2, <2>3, <2>4
<1>3. CASE Fail
  BY <1>3 DEF Fail, Exchange, End, progress, stats
<1>4. CASE Reject
  BY <1>4 DEF Reject, FormatsRunOut, Exchange, End, GoOn, progress, stats
<1>5. CASE Throttle
  BY <1>5 DEF Throttle, Exchange, End, GoOn, progress, stats
<1>6. CASE Read
  <2>1. UNCHANGED <<kind, answer, calls, round>> /\ stage = "read"
    BY <1>6 DEF Read, End, GoOn, progress, stats
  <2>2. stage' = "read" => received' < MaxOutput /\ outcome' = outcome
    BY <1>6 DEF Read, End, GoOn
  <2>3. stage' = "judge" => outcome' = outcome
    BY <1>6 DEF Read, End, GoOn
  <2>4. stage' \in {"read", "judge", "done"}
    BY <1>6 DEF Read, End, GoOn
  <2>5. QED
    BY <2>1, <2>2, <2>3, <2>4
<1>7. CASE ReadTooLate
  BY <1>7 DEF ReadTooLate, End, progress, stats
<1>8. CASE Judge
  <2>1. /\ stage = "judge" /\ calls = round /\ calls' = calls + 1
        /\ UNCHANGED <<kind, received, answer>>
    BY <1>8 DEF Judge, Record
  <2>2. CASE stage' = "done"
    <3>1. round' = round
      BY <1>8, <2>2 DEF Judge, End, GoOn, progress
    <3>2. QED
      BY <1>0, <2>1, <2>2, <3>1
  <2>3. CASE stage' = "attempt"
    <3>1. /\ kind.schema /\ answer # "valid" /\ round # 1 /\ round' = 1
          /\ downgraded' = FALSE /\ backoffs' = 0 /\ outcome' = outcome
      BY <1>8, <2>3 DEF Judge, End, GoOn
    <3>2. QED
      BY <1>0, <2>1, <2>3, <3>1
  <2>4. QED
    BY <1>8, <2>2, <2>3 DEF Judge, End, GoOn
<1>9. CASE UNCHANGED transportVars
  BY <1>9 DEF transportVars, progress, stats
<1>10. QED
  BY <1>1, <1>2, <1>3, <1>4, <1>5, <1>6, <1>7, <1>8, <1>9 DEF TransportNext

LEMMA BillsStep ==
  TransportTypeOK /\ InRound /\ BillsOnce /\ [TransportNext]_transportVars
    => BillsOnce'
<1> SUFFICES ASSUME TransportTypeOK, InRound, BillsOnce, [TransportNext]_transportVars
             PROVE  BillsOnce'
  OBVIOUS
<1>0. round \in {0, 1} /\ calls \in 0 .. 2 /\ delegations \in 0 .. 2
  BY Fixed DEF TransportTypeOK
(* Only Judge bills, and only it gives a result. *)
<1>a. ASSUME UNCHANGED stats, UNCHANGED round, outcome' \in {outcome, "backend_error",
             "rate_limited", "timeout", "sink_error"}
      PROVE  BillsOnce'
  BY <1>a DEF BillsOnce, stats
<1>b. ASSUME UNCHANGED stats, stage \in Going, outcome' = outcome
      PROVE  BillsOnce'
  BY <1>b DEF BillsOnce, stats, InRound
<1> USE DEF End, GoOn
<1>1. CASE Attempt
  BY <1>1, <1>a DEF Attempt, progress
<1>2. CASE Respond
  BY <1>2, <1>b DEF Respond, Exchange, Going
<1>3. CASE Fail
  BY <1>3, <1>a DEF Fail, Exchange, progress
<1>4. CASE Reject
  BY <1>4, <1>a DEF Reject, FormatsRunOut, Exchange, progress
<1>5. CASE Throttle
  <2>1. UNCHANGED stats /\ round' = round
    BY <1>5 DEF Throttle, Exchange, progress
  <2>2. outcome' \in {outcome, "backend_error", "rate_limited"}
    BY <1>5 DEF Throttle, RateLimitRaised
  <2>3. QED
    BY <1>a, <2>1, <2>2
<1>6. CASE Read
  <2>1. UNCHANGED stats /\ round' = round
    BY <1>6 DEF Read, progress
  <2>2. outcome' \in {outcome, "backend_error", "timeout", "sink_error"}
    BY <1>6 DEF Read
  <2>3. QED
    BY <1>a, <2>1, <2>2
<1>7. CASE ReadTooLate
  BY <1>7, <1>a DEF ReadTooLate, progress
<1>8. CASE Judge
  <2>1. /\ calls = round /\ calls' = round + 1 /\ outcome = "none"
        /\ delegations = IF round = 0 THEN 0 ELSE 1
    BY <1>0, <1>8 DEF Judge, Record, InRound, Going, BillsOnce
  <2>2. delegations' = 1
    BY <1>0, <1>8, <2>1 DEF Judge, Record
  <2>3. outcome' \in {"ok", "invalid"} => round' = round
    BY <1>8, <2>1 DEF Judge, progress
  <2>4. QED
    BY <1>0, <2>1, <2>2, <2>3 DEF BillsOnce
<1>9. CASE UNCHANGED transportVars
  BY <1>9, <1>a DEF transportVars, progress
<1>10. QED
  BY <1>1, <1>2, <1>3, <1>4, <1>5, <1>6, <1>7, <1>8, <1>9 DEF TransportNext

-----------------------------------------------------------------------------
LEMMA Invariant == TransportSpec => []IInv
<1>1. IInv /\ [TransportNext]_transportVars => IInv'
  BY TypeStep, TimeStep, QuotaStep, RoundStep, BillsStep DEF IInv
<1>2. QED
  BY InitInv, <1>1, PTL DEF TransportSpec

(* Every variable of a delegation keeps its type, and its counters stay    *)
(* within their caps.                                                      *)
THEOREM TypeCorrect == TransportSpec => []TransportTypeOK
BY Invariant, PTL DEF IInv

(* dispatch's retry, the downgrade and the backoffs of OllamaBackend.run   *)
(* and stream_run share the deadline of --timeout: one downgraded request  *)
(* is all they ever send after it.                                         *)
THEOREM LateSentOnce == TransportSpec => []OneLateRequest
<1>1. IInv => OneLateRequest
  BY DEF IInv, InTime, OneLateRequest
<1>2. QED
  BY Invariant, <1>1, PTL

(* The retry, the downgrade and the backoffs never send more requests than *)
(* the product of their caps.                                              *)
THEOREM RequestsCapped == TransportSpec => []CapsRequests
<1>1. IInv => CapsRequests
  <2> SUFFICES ASSUME TransportTypeOK, InQuota PROVE CapsRequests
    BY DEF IInv
  <2> DEFINE K == MaxBackoffs + 1
  <2>1. /\ round \in 0 .. (Rounds - 1) /\ Rounds \in {1, 2}
        /\ backoffs \in 0 .. MaxBackoffs /\ K \in Nat /\ requests \in Nat
    BY Fixed DEF TransportTypeOK
  <2>2. Formats \in 0 .. (2 * Rounds - 1)
    BY <2>1 DEF Formats
  <2>3. (Formats + 1) * K = Formats * K + K /\ Formats * K \in Nat
    BY <2>1, <2>2
  <2>4. requests <= (Formats + 1) * K
    BY <2>1, <2>3 DEF InQuota, Sent
  <2>5. (Formats + 1) * K <= (2 * Rounds) * K
    BY <2>1, <2>2
  <2>6. RequestCap = (2 * Rounds) * K
    BY <2>1 DEF RequestCap
  <2>7. (Formats + 1) * K \in Nat /\ (2 * Rounds) * K \in Nat
    BY <2>1, <2>2
  <2>8. QED
    BY <2>1, <2>4, <2>5, <2>6, <2>7 DEF CapsRequests
<1>2. QED
  BY Invariant, <1>1, PTL

(* TokenStats counts a delegation once, however many calls it makes, and   *)
(* one call for each round of a delegation that succeeded.                 *)
THEOREM BilledOnce == TransportSpec => []BillsOnce
BY Invariant, PTL DEF IInv
=============================================================================
