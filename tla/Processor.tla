------------------------------ MODULE Processor ------------------------------
(***************************************************************************)
(* A call to the external processor, from both ends: the retry loop of     *)
(* HTTPClient.Process (internal/processor/http.go) in the workers that     *)
(* call it, and the mock processor with its bounded replay cache           *)
(* (cmd/mockprocessor/main.go).                                            *)
(*                                                                         *)
(* Several workers may call for the same job: a worker that lost its lease *)
(* does not know it.  A client gives up on a request when its timeout      *)
(* fires, its context is cancelled or the connection breaks; the handler   *)
(* at the other end runs on for a while and may still do the work.         *)
(*                                                                         *)
(* Time is the Tick action.  It counts the client's timers and waits for   *)
(* those that are due; the processor may take as long as it likes.         *)
(***************************************************************************)
EXTENDS Integers, Sequences, FiniteSets

CONSTANTS
    Calls,              \* the calls of Process that the workers make
    Jobs,               \* job ids
    Called,             \* those the workers call it with
    Refused,            \* those whose request the processor answers with 400
    Earlier,            \* jobs the processor has remembered before
    MaxRetries,         \* MOCK_MAX_RETRIES
    Timeout,            \* MOCK_TIMEOUT, in ticks
    FirstBackoff,       \* the 200 ms of the first backoff, in ticks
    MaxRememberedJobs   \* maxRememberedJobs

\* NewHTTPClient raises MOCK_MAX_RETRIES to 1.  Nothing in Config.Validate looks
\* at MOCK_TIMEOUT; with 0 the HTTP client would wait for ever.
ASSUME ProcessorAssumption ==
    /\ Called \subseteq Jobs /\ Refused \subseteq Jobs
    /\ MaxRetries \in Nat \ {0}
    /\ Timeout \in Nat \ {0}
    /\ FirstBackoff \in Nat \ {0}
    /\ MaxRememberedJobs \in Nat \ {0}
    /\ Earlier \subseteq Jobs \ Refused
    /\ Cardinality(Earlier) \in 0 .. MaxRememberedJobs

VARIABLES
    call,       \* the state of each call
    handlers,   \* the requests the processor is serving or has answered
    results,    \* the jobs whose summary the processor remembers
    order,      \* the same jobs, oldest first
    processed   \* jobs the processor has processed at some time

cache == <<results, order>>
pvars == <<call, handlers, cache, processed>>

\* The summary of a job is a function of its row and its object, neither of
\* which changes, so to remember a job is to remember its summary.
NoCall ==
    [pc |-> "idle", job |-> "none", attempt |-> 0, backoff |-> 0, timer |-> 0,
     elapsed |-> 0, cancelled |-> FALSE, sendable |-> FALSE, outcome |-> "none"]

\* The processor may have been up for a while.
ProcessorInit ==
    /\ call = [c \in Calls |-> NoCall]
    /\ handlers = {}
    /\ order \in [1 .. Cardinality(Earlier) -> Earlier]
    /\ \A i, k \in DOMAIN order : order[i] = order[k] => i = k
    /\ results = {order[i] : i \in DOMAIN order}
    /\ processed = results

\* The request the caller is waiting for; an older one is of no concern to it.
Request(c, job, status) ==
    [call |-> c, attempt |-> call[c].attempt, job |-> job, status |-> status]

Awaited(h) ==
    call[h.call].pc = "wait" /\ call[h.call].attempt = h.attempt

-----------------------------------------------------------------------------
(* HTTPClient.Process                                                      *)

Return(c, outcome) ==
    call' = [call EXCEPT ![c] = [NoCall EXCEPT !.pc = "done", !.job = call[c].job,
                                               !.sendable = call[c].sendable,
                                               !.outcome = outcome]]

\* Mutant of Process: attempts are counted from 0.
ProcessFromZero(c, job) ==
    /\ call[c].pc = "idle"
    /\ call' = [call EXCEPT ![c] =
                   [NoCall EXCEPT !.pc = "send", !.job = job, !.sendable = TRUE,
                                  !.backoff = FirstBackoff]]
    /\ UNCHANGED <<handlers, cache, processed>>

\* The payload is encoded once, before the first attempt; an encoder that gives
\* up ends the call with ErrPermanent.  Whether a request can be built from
\* MOCK_PROCESSOR_URL, which Config.Validate only wants not to be empty, is the
\* same for every attempt.
Process(c, job) ==
    /\ call[c].pc = "idle"
    /\ \/ \E sendable \in BOOLEAN :
              call' = [call EXCEPT ![c] =
                          [NoCall EXCEPT !.pc = "send", !.job = job, !.attempt = 1,
                                         !.backoff = FirstBackoff,
                                         !.sendable = sendable]]
       \/ call' = [call EXCEPT ![c] =
                       [NoCall EXCEPT !.pc = "done", !.job = job,
                                      !.outcome = "permanent"]]
    /\ UNCHANGED <<handlers, cache, processed>>

\* Mutant of AfterFailure: the jitter is drawn from the whole backoff.
AfterFailureFullJitter(c) ==
    IF call[c].attempt >= MaxRetries
    THEN Return(c, "error")
    ELSE call' = [call EXCEPT ![c].pc = "backoff", ![c].timer = 2 * call[c].backoff]

\* What Process does with a retryable error.  The wait is the backoff and a jitter
\* of up to half of it: the timer is set for the longest one, see BackoffOver.
AfterFailure(c) ==
    IF call[c].attempt >= MaxRetries
    THEN Return(c, "error")
    ELSE call' = [call EXCEPT ![c].pc = "backoff",
                              ![c].timer = call[c].backoff + call[c].backoff \div 2]

\* doOnce cannot build its request: ErrPermanent, and no other attempt.
BuildFails(c) ==
    /\ call[c].pc = "send"
    /\ ~call[c].sendable
    /\ Return(c, "permanent")
    /\ UNCHANGED <<handlers, cache, processed>>

\* The transport sends nothing once the context is done.
DoOnce(c) ==
    /\ call[c].pc = "send"
    /\ call[c].sendable
    /\ ~call[c].cancelled
    /\ call' = [call EXCEPT ![c].pc = "wait", ![c].timer = Timeout]
    /\ handlers' = handlers \cup {Request(c, call[c].job, 0)}
    /\ UNCHANGED <<cache, processed>>

\* Mutant of TransportFails: the HTTP client is built without its timeout.
TransportFailsUntimed(c) ==
    /\ call[c].pc \in {"send", "wait"}
    /\ call[c].sendable
    /\ call[c].pc = "wait" => call[c].timer > 0 \/ call[c].cancelled
    /\ AfterFailure(c)
    /\ handlers' = {h \in handlers : h.call = c => h.status < 200}
    /\ UNCHANGED <<cache, processed>>

\* No connection, a connection that breaks, also in the middle of an answer, the
\* client's timeout, or a cancelled context: all of them may be tried again.
TransportFails(c) ==
    /\ call[c].pc \in {"send", "wait"}
    /\ call[c].sendable
    /\ AfterFailure(c)
    /\ handlers' = {h \in handlers : h.call = c => h.status < 200}
    /\ UNCHANGED <<cache, processed>>

\* Mutant of Permanent: 429 is a 4xx like any other.
PermanentWithTooMany(status) == status \in 400 .. 499

\* The answers that Process wraps in ErrPermanent.
Permanent(status) == status \in 400 .. 499 /\ status # 429

\* An answer arrives.  5xx and 429 are retried, 200 carries the summary.
ReceiveAnswer(c) ==
    \E h \in handlers :
        /\ h.call = c /\ Awaited(h) /\ h.status >= 200
        /\ handlers' = handlers \ {h}
        /\ CASE h.status = 200       -> Return(c, "ok")
             [] Permanent(h.status)  -> Return(c, "permanent")
             [] OTHER                -> AfterFailure(c)
        /\ UNCHANGED <<cache, processed>>

\* The backoff itself is over, and as much of the longest jitter as was drawn.
BackoffOver(c) ==
    /\ call[c].pc = "backoff"
    /\ call[c].timer <= call[c].backoff \div 2
    /\ call' = [call EXCEPT ![c].pc = "send", ![c].attempt = @ + 1,
                            ![c].backoff = 2 * @, ![c].timer = 0]
    /\ UNCHANGED <<handlers, cache, processed>>

BackoffCancelled(c) ==
    /\ call[c].pc = "backoff"
    /\ call[c].cancelled
    /\ Return(c, "error")
    /\ UNCHANGED <<handlers, cache, processed>>

\* The worker's context is cancelled: its replica is shutting down.
Cancel(c) ==
    /\ call[c].pc \in {"send", "wait", "backoff"}
    /\ ~call[c].cancelled
    /\ call' = [call EXCEPT ![c].cancelled = TRUE]
    /\ UNCHANGED <<handlers, cache, processed>>

-----------------------------------------------------------------------------
(* The mock processor                                                      *)

\* The answer of a request nobody waits for any more goes nowhere.
Answer(h, status) ==
    handlers' = (handlers \ {h}) \cup
                    (IF status < 200 \/ Awaited(h)
                     THEN {[h EXCEPT !.status = status]} ELSE {})

\* A body that is no JSON, is cut off at the 1 MiB the decoder is given, or has
\* no job id.
Malformed(h) ==
    /\ h.status = 0
    /\ h.job \in Refused
    /\ Answer(h, 400)
    /\ UNCHANGED <<call, cache, processed>>

\* An idempotent replay.
Cached(h) ==
    /\ h.status = 0
    /\ h.job \in results
    /\ Answer(h, 200)
    /\ UNCHANGED <<call, cache, processed>>

\* Mutant of Remember: it does not look whether the job has been seen.
RememberAgain(job) ==
    LET full == Len(order) >= MaxRememberedJobs
    IN  /\ results' = (IF full THEN results \ {Head(order)} ELSE results) \cup {job}
        /\ order' = Append(IF full THEN Tail(order) ELSE order, job)

\* Two handlers may have missed the cache together; the second finds the first
\* one's entry.  A full cache forgets its oldest job.
Remember(job) ==
    IF job \in results
    THEN UNCHANGED cache
    ELSE LET full == Len(order) >= MaxRememberedJobs
         IN  /\ results' = (IF full THEN results \ {Head(order)} ELSE results)
                               \cup {job}
             /\ order' = Append(IF full THEN Tail(order) ELSE order, job)

\* Mutant of Download: the job is remembered before its payload is there.
DownloadRemembered(h) ==
    /\ h.status = 0
    /\ h.job \notin Refused \cup results
    /\ Remember(h.job)
    /\ Answer(h, 1)
    /\ UNCHANGED <<call, processed>>

\* The payload has been looked up and is being downloaded, if there is one.
Download(h) ==
    /\ h.status = 0
    /\ h.job \notin Refused \cup results
    /\ Answer(h, 1)
    /\ UNCHANGED <<call, cache, processed>>

\* The download fails, or its client is gone.
DownloadFails(h) ==
    /\ h.status = 1
    /\ Answer(h, 502)
    /\ UNCHANGED <<call, cache, processed>>

Finish(h) ==
    /\ h.status = 1
    /\ Remember(h.job)
    /\ processed' = processed \cup {h.job}
    /\ Answer(h, 200)
    /\ UNCHANGED call

\* Something in front of the processor turns the request away.
TooManyRequests(h) ==
    /\ h.status = 0
    /\ Answer(h, 429)
    /\ UNCHANGED <<call, cache, processed>>

\* The cache is in memory only.
Restart ==
    /\ handlers' = {}
    /\ results' = {}
    /\ order' = << >>
    /\ UNCHANGED <<call, processed>>

-----------------------------------------------------------------------------

\* A call that need not wait, or need not wait any longer.
Due(c) ==
    /\ call[c].pc \notin {"idle", "done"}
    /\ call[c].timer = 0 \/ call[c].cancelled

\* Timers fire on time, and a goroutine that can go on does so at once.
Tick ==
    /\ \A c \in Calls : ~Due(c)
    /\ \E c \in Calls : call[c].timer > 0
    /\ call' = [c \in Calls |->
                   IF call[c].timer = 0 THEN call[c]
                   ELSE [call[c] EXCEPT !.timer = @ - 1, !.elapsed = @ + 1]]
    /\ UNCHANGED <<handlers, cache, processed>>

ClientNext(c) ==
    \/ BuildFails(c)
    \/ DoOnce(c)
    \/ TransportFails(c)
    \/ ReceiveAnswer(c)
    \/ BackoffOver(c)
    \/ BackoffCancelled(c)

HandlerNext(h) ==
    \/ Malformed(h)
    \/ Cached(h)
    \/ Download(h)
    \/ DownloadFails(h)
    \/ Finish(h)
    \/ TooManyRequests(h)

ProcessorNext ==
    \/ \E c \in Calls, job \in Called : Process(c, job)
    \/ \E c \in Calls : ClientNext(c) \/ Cancel(c)
    \/ \E h \in handlers : HandlerNext(h)
    \/ Restart
    \/ Tick

ProcessorSpec == ProcessorInit /\ [][ProcessorNext]_pvars

\* The client's goroutine runs, and its timers fire.  Nothing is asked of the
\* processor or of the network.
ProcessorFairSpec ==
    /\ ProcessorSpec
    /\ WF_pvars(Tick)
    /\ \A c \in Calls : WF_pvars(Due(c) /\ ClientNext(c))

-----------------------------------------------------------------------------
(* Properties.                                                             *)

\* `backoff` after n doublings.
Doubled[n \in Nat] == IF n = 0 THEN FirstBackoff ELSE 2 * Doubled[n - 1]

\* The most that the waits between the attempts can add up to.  A wait is one and
\* a half backoffs, rounded down, and all backoffs from the first to the one before
\* the last attempt add up to what one more doubling gives, less the first.
BackoffTotal == (3 * (Doubled[MaxRetries - 1] - FirstBackoff)) \div 2

\* The local variables of Process, its timers and what it returns.
CallState ==
    [pc        : {"idle", "send", "wait", "backoff", "done"},
     job       : Jobs \cup {"none"},
     attempt   : 0 .. MaxRetries,
     backoff   : Nat,
     timer     : Nat,
     elapsed   : Nat,
     cancelled : BOOLEAN,
     sendable  : BOOLEAN,
     outcome   : {"none", "ok", "permanent", "error"}]

\* A request and how far its handler is.
HandlerState ==
    [call : Calls, attempt : 1 .. MaxRetries, job : Jobs,
     status : {0, 1, 200, 400, 429, 502}]

\* Every variable has the shape the code gives it.
ProcessorTypeOK ==
    /\ call \in [Calls -> CallState]
    /\ handlers \subseteq HandlerState
    /\ results \subseteq Jobs
    /\ order \in Seq(Jobs)
    /\ processed \subseteq Jobs

\* The replay cache stays what it claims to be, although handlers for the same
\* job look it up together and remember the job one after the other: `order`
\* lists exactly the remembered jobs, each of them once, so that forgetting the
\* oldest never leaves a stale entry behind, and there are never too many.
CacheExact ==
    /\ results = {order[i] : i \in DOMAIN order}
    /\ \A i, k \in DOMAIN order : order[i] = order[k] => i = k
    /\ Len(order) <= MaxRememberedJobs

\* The worker completes a job only when it has been processed: whatever times
\* out, is retried, answered late or lost, a call that returns a summary is about
\* a job the processor has worked on.
OkMeansProcessed ==
    \A c \in Calls : call[c].outcome = "ok" => call[c].job \in processed

\* The worker fails a job for good (domain.ErrPermanent) only when trying again
\* is of no use: the request could not be made at all, or the processor refuses
\* that very job, whose work nobody has done and no other call gets a summary of.
\* Timeouts, broken connections, restarts, 5xx, 429 and cancellation, in any
\* order, never cost a job more than an attempt.
PermanentMeansHopeless ==
    \A c \in Calls :
        call[c].outcome = "permanent" =>
            ~call[c].sendable \/ call[c].job \in Refused \ processed

\* A call takes no longer than its timeouts and backoffs add up to.  This is the
\* longest run the worker has to reckon with (MaxRun of Worker).
CallTimeBounded ==
    \A c \in Calls : call[c].elapsed <= MaxRetries * Timeout + BackoffTotal

\* Every call of Process returns, also when the processor never answers.
CallReturns ==
    \A c \in Calls : call[c].pc = "send" ~> call[c].pc = "done"
=============================================================================
