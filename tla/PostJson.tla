-------------------------------- MODULE PostJson --------------------------------
(***************************************************************************)
(* postJson() of http/upstream.ts: one JSON request to an upstream, bounded   *)
(* by a time-to-headers timer, retried a few times, given up when the client  *)
(* aborts.  The upstream may take the body, answer, hang or drop the          *)
(* connection whenever it likes.                                              *)
(***************************************************************************)
EXTENDS Integers, FiniteSets

CONSTANTS
    Request,      \* the requests
    Counts,       \* those for count_tokens, the others carry messages
    MaxRetries,   \* maxRetries
    Backoff,      \* RETRY_BACKOFF_BASE_MS
    BackoffCap,   \* RETRY_BACKOFF_CAP_MS
    RetryCap,     \* MAX_RETRY_AFTER_MS
    RetryAfters   \* what parseRetryAfter() may return

ASSUME PostAssumption ==
    /\ Counts \subseteq Request /\ MaxRetries \in Nat
    /\ {Backoff, BackoffCap, RetryCap} \subseteq Nat /\ RetryAfters \subseteq Nat

VARIABLES
    post,      \* where the loop of each request is, and its attempt
    delay,     \* the sleep it is in
    body,      \* the body of the attempt: "kept", "sent", "taken"
    taken,     \* attempts whose body the upstream took
    answers,   \* attempts it answered
    aborted,   \* options.signal.aborted
    outcome    \* what the request came to

postVars == <<post, delay, body, taken, answers, aborted, outcome>>

\* retryTransientStatus, as the callers set it; retryRateLimit is false everywhere.
RetryTransientStatus(q) == q \in Counts

Statuses == {200, 302, 400, 429, 503}
IsTransientStatus(status) == status \in {429, 503}
Refused(status) == status \in 300..399

\* A status that is sent again.  Mutant: whoever asks.
RetriedAnyway(q, status) ==
    IsTransientStatus(status) /\ status # 429 /\ post[q].attempt < MaxRetries
Retried(q, status) ==
    IsTransientStatus(status) /\ status # 429 /\ RetryTransientStatus(q) /\ post[q].attempt < MaxRetries

\* backoffCeilingMs(), backoffDelay(): full jitter under a doubling ceiling.
Least(a, b) == IF a < b THEN a ELSE b
BackoffCeiling(attempt) == Least(Backoff * 2 ^ attempt, BackoffCap)
BackoffDelays(attempt) == 0..BackoffCeiling(attempt)

\* The Retry-After of the answer comes first, capped.
Delays(attempt) == BackoffDelays(attempt) \cup {Least(after, RetryCap) : after \in RetryAfters}

Sleep(q, delays) ==
    /\ post' = [post EXCEPT ![q].at = "asleep"]
    /\ \E d \in delays : delay' = [delay EXCEPT ![q] = d]
    /\ UNCHANGED outcome
Conclude(q, result) ==
    /\ post' = [post EXCEPT ![q].at = "done"]
    /\ outcome' = [outcome EXCEPT ![q] = result]
    /\ UNCHANGED delay

\* The head of the loop: no attempt for a client that went away.  Mutant: unchecked.
GoesOnUnchecked(q) == TRUE
GoesOn(q) == ~aborted[q]
Fetch(q) ==
    /\ post[q].at = "head"
    /\ \/ /\ GoesOn(q)
          /\ post' = [post EXCEPT ![q].at = "waiting"]
          /\ body' = [body EXCEPT ![q] = "sent"]
          /\ UNCHANGED <<delay, outcome>>
       \/ ~GoesOn(q) /\ Conclude(q, "aborted") /\ UNCHANGED body
    /\ UNCHANGED <<taken, answers, aborted>>

\* The upstream takes the body.
Take(q) ==
    /\ post[q].at = "waiting" /\ body[q] = "sent"
    /\ body' = [body EXCEPT ![q] = "taken"]
    /\ taken' = [taken EXCEPT ![q] = @ + 1]
    /\ UNCHANGED <<post, delay, answers, aborted, outcome>>

\* Headers arrived: the timer is cleared.
Respond(q) ==
    /\ post[q].at = "waiting" /\ body[q] = "taken"
    /\ \E status \in Statuses :
          \/ Refused(status) /\ Conclude(q, "redirect")
          \/ ~Refused(status) /\ Retried(q, status) /\ Sleep(q, Delays(post[q].attempt))
          \/ ~Refused(status) /\ ~Retried(q, status) /\ Conclude(q, "response")
    /\ body' = [body EXCEPT ![q] = "kept"]
    /\ answers' = [answers EXCEPT ![q] = @ + 1]
    /\ UNCHANGED <<taken, aborted>>

\* The catch block.
Caught(q) ==
    /\ \/ aborted[q] /\ Conclude(q, "aborted")
       \/ ~aborted[q] /\ post[q].attempt < MaxRetries /\ Sleep(q, BackoffDelays(post[q].attempt))
       \/ ~aborted[q] /\ post[q].attempt = MaxRetries /\ Conclude(q, "failed")
    /\ body' = [body EXCEPT ![q] = "kept"]
    /\ UNCHANGED <<taken, answers, aborted>>

\* The connection fails, before or after the body was taken.
ConnectionFails(q) == post[q].at = "waiting" /\ Caught(q)

\* The time to headers is over.  Mutant: only for a body nobody took.
TimesUntaken(q) == body[q] = "sent"
Timed(q) == TRUE
HeadersTimeOut(q) == post[q].at = "waiting" /\ Timed(q) /\ Caught(q)

\* The client aborts; a fetch under way rejects.
Abort(q) ==
    /\ ~aborted[q] /\ post[q].at # "done"
    /\ aborted' = [aborted EXCEPT ![q] = TRUE]
    /\ UNCHANGED <<post, delay, body, taken, answers, outcome>>
FetchAborted(q) == post[q].at = "waiting" /\ aborted[q] /\ Caught(q)

\* The sleep is over.
Wake(q) ==
    /\ post[q].at = "asleep"
    /\ post' = [post EXCEPT ![q] = [at |-> "head", attempt |-> @.attempt + 1]]
    /\ delay' = [delay EXCEPT ![q] = 0]
    /\ UNCHANGED <<body, taken, answers, aborted, outcome>>

PostInit(at) ==
    /\ post = [q \in Request |-> [at |-> at, attempt |-> 0]]
    /\ delay = [q \in Request |-> 0]
    /\ body = [q \in Request |-> "kept"]
    /\ taken = [q \in Request |-> 0]
    /\ answers = [q \in Request |-> 0]
    /\ aborted = [q \in Request |-> FALSE]
    /\ outcome = [q \in Request |-> "none"]

Loop(q) == Fetch(q) \/ Wake(q) \/ FetchAborted(q) \/ HeadersTimeOut(q)
Upstream(q) == Take(q) \/ Respond(q) \/ ConnectionFails(q)

------------------------------------------------------------------------------
(* Properties.                                                             *)

\* No body goes out for a client that is gone, whichever sleep, answer or error its
\* abort meets.
NothingForTheGone ==
    [][\A q \in Request : aborted[q] /\ body'[q] = "sent" => body[q] = "sent"]_postVars

\* What one call may cost: a message that was answered is not sent again, whatever
\* the answer; no more bodies go out than there are attempts; and no answer makes
\* the loop sleep longer than the caps.
RetriesBounded == \A q \in Request :
    /\ q \notin Counts => answers[q] <= 1
    /\ taken[q] <= MaxRetries + 1
    /\ delay[q] <= RetryCap \/ delay[q] <= BackoffCap

\* A message goes to its upstream once: it is retried only where it was not taken.
MessageTakenOnce == \A q \in Request \ Counts : taken[q] <= 1
==============================================================================
