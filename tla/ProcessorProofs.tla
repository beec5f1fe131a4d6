--------------------------- MODULE ProcessorProofs ---------------------------
(***************************************************************************)
(* What Processor promises, for any number of calls and jobs, any size of  *)
(* the replay cache, any number of attempts and any timeouts.              *)
(*                                                                         *)
(* The invariant ProcessorInv adds to the promises what they rest on: a    *)
(* request is about the job of its call, an answer in flight is already    *)
(* true, only processed jobs are remembered and no refused job is worked   *)
(* on.                                                                     *)
(***************************************************************************)
EXTENDS Processor, SequenceTheorems, WellFoundedInduction, TLAPS

\* A call that is under way counts its attempts from one, and one that backs off
\* has an attempt left.
CallSound(s) ==
    /\ s.pc # "idle" => s.job \in Jobs
    /\ s.pc \notin {"idle", "done"} => s.attempt >= 1
    /\ s.pc = "backoff" => s.attempt < MaxRetries
    /\ s.outcome = "ok" => s.job \in processed
    /\ s.outcome = "permanent" => ~s.sendable \/ s.job \in Refused

CallsSound == \A c \in Calls : CallSound(call[c])

\* What an answer says of its job is so before the client hears of it, and nobody
\* works on a job that is refused.
AnswerSound(h) ==
    /\ h.status = 1 => h.job \notin Refused
    /\ h.status = 200 => h.job \in processed
    /\ Permanent(h.status) => h.job \in Refused

HandlersSound ==
    \A h \in handlers :
        /\ call[h.call].pc # "idle"
        /\ h.job = call[h.call].job
        /\ AnswerSound(h)

CacheSound ==
    /\ CacheExact
    /\ results \subseteq processed
    /\ processed \cap Refused = {}

ProcessorInv ==
    /\ ProcessorTypeOK
    /\ CallsSound
    /\ HandlersSound
    /\ CacheSound

-----------------------------------------------------------------------------
(* The replay cache                                                        *)

\* Forgetting the oldest job of a sequence without repetitions forgets exactly
\* that job.
LEMMA TailExact ==
    ASSUME NEW S, NEW s \in Seq(S), s # << >>,
           \A i, k \in DOMAIN s : s[i] = s[k] => i = k
    PROVE  /\ Tail(s) \in Seq(S)
           /\ Len(Tail(s)) = Len(s) - 1
           /\ \A i, k \in DOMAIN Tail(s) : Tail(s)[i] = Tail(s)[k] => i = k
           /\ {Tail(s)[i] : i \in DOMAIN Tail(s)} =
                  {s[i] : i \in DOMAIN s} \ {Head(s)}
<1> DEFINE t == Tail(s)
<1>1. /\ t \in Seq(S)
      /\ Len(t) = Len(s) - 1
      /\ DOMAIN t = 1 .. Len(s) - 1
      /\ DOMAIN s = 1 .. Len(s)
      /\ Len(s) \in Nat \ {0}
      /\ \A i \in 1 .. Len(s) - 1 : t[i] = s[i + 1]
      /\ Head(s) = s[1]
    OBVIOUS
<1>2. \A i, k \in DOMAIN t : t[i] = t[k] => i = k
    <2> SUFFICES ASSUME NEW i \in DOMAIN t, NEW k \in DOMAIN t, t[i] = t[k]
                 PROVE  i = k
        OBVIOUS
    <2>1. s[i + 1] = s[k + 1] /\ i + 1 \in DOMAIN s /\ k + 1 \in DOMAIN s
        BY <1>1
    <2>2. i + 1 = k + 1
        BY <2>1
    <2> QED
        BY <1>1, <2>2
<1>3. ASSUME NEW i \in DOMAIN t
      PROVE  t[i] \in {s[k] : k \in DOMAIN s} \ {Head(s)}
    <2>1. i + 1 \in DOMAIN s /\ 1 \in DOMAIN s /\ i + 1 # 1 /\ t[i] = s[i + 1]
        BY <1>1
    <2> QED
        BY <1>1, <2>1
<1>4. ASSUME NEW i \in DOMAIN s, s[i] # Head(s)
      PROVE  s[i] \in {t[k] : k \in DOMAIN t}
    <2>1. i # 1
        BY <1>1, <1>4
    <2>2. i - 1 \in DOMAIN t /\ t[i - 1] = s[i]
        BY <1>1, <2>1
    <2> QED
        BY <2>2
<1> QED
    BY <1>1, <1>2, <1>3, <1>4

\* A new job at the end of such a sequence.
LEMMA AppendExact ==
    ASSUME NEW S, NEW s \in Seq(S), NEW e \in S, e \notin {s[i] : i \in DOMAIN s},
           \A i, k \in DOMAIN s : s[i] = s[k] => i = k
    PROVE  LET t == Append(s, e)
           IN  /\ t \in Seq(S)
               /\ Len(t) = Len(s) + 1
               /\ \A i, k \in DOMAIN t : t[i] = t[k] => i = k
               /\ {t[i] : i \in DOMAIN t} = {s[i] : i \in DOMAIN s} \cup {e}
<1> DEFINE t == Append(s, e)
<1>1. /\ t \in Seq(S)
      /\ Len(t) = Len(s) + 1
      /\ DOMAIN t = 1 .. Len(s) + 1
      /\ DOMAIN s = 1 .. Len(s)
      /\ Len(s) \in Nat
      /\ \A i \in 1 .. Len(s) : t[i] = s[i]
      /\ t[Len(s) + 1] = e
    OBVIOUS
<1>2. \A i \in DOMAIN s : s[i] # e
    OBVIOUS
<1>3. \A i, k \in DOMAIN t : t[i] = t[k] => i = k
    <2> SUFFICES ASSUME NEW i \in DOMAIN t, NEW k \in DOMAIN t, t[i] = t[k]
                 PROVE  i = k
        OBVIOUS
    <2>1. CASE i \in DOMAIN s /\ k \in DOMAIN s
        BY <1>1, <2>1
    <2>2. CASE i \notin DOMAIN s \/ k \notin DOMAIN s
        BY <1>1, <1>2, <2>2
    <2> QED
        BY <2>1, <2>2
<1>4. {t[i] : i \in DOMAIN t} = {s[i] : i \in DOMAIN s} \cup {e}
    <2>1. ASSUME NEW i \in DOMAIN t PROVE t[i] \in {s[k] : k \in DOMAIN s} \cup {e}
        BY <1>1
    <2>2. ASSUME NEW i \in DOMAIN s PROVE s[i] \in {t[k] : k \in DOMAIN t}
        <3>1. i \in DOMAIN t /\ t[i] = s[i]
            BY <1>1
        <3> QED
            BY <3>1
    <2>3. e \in {t[k] : k \in DOMAIN t}
        BY <1>1
    <2> QED
        BY <2>1, <2>2, <2>3
<1> QED
    BY <1>1, <1>3, <1>4

\* remember keeps map and list in step, full or not, first or second.
LEMMA RememberExact ==
    ASSUME order \in Seq(Jobs), CacheExact, NEW job \in Jobs, Remember(job)
    PROVE  /\ order' \in Seq(Jobs)
           /\ CacheExact'
           /\ results' \subseteq results \cup {job}
<1>1. CASE job \in results
    BY <1>1 DEF Remember, CacheExact, cache
<1>2. CASE job \notin results
    <2> DEFINE full == Len(order) >= MaxRememberedJobs
               rest == IF full THEN Tail(order) ELSE order
               kept == IF full THEN results \ {Head(order)} ELSE results
    <2>1. results' = kept \cup {job} /\ order' = Append(rest, job)
        BY <1>2, Zenon DEF Remember
    <2>2. /\ rest \in Seq(Jobs)
          /\ kept = {rest[i] : i \in DOMAIN rest}
          /\ \A i, k \in DOMAIN rest : rest[i] = rest[k] => i = k
          /\ Len(rest) < MaxRememberedJobs
        <3>1. CASE full
            <4>1. order # << >> /\ Len(order) = MaxRememberedJobs /\ Len(order) \in Nat
                BY <3>1, ProcessorAssumption DEF CacheExact
            <4>2. /\ Tail(order) \in Seq(Jobs)
                  /\ Len(Tail(order)) = Len(order) - 1
                  /\ \A i, k \in DOMAIN Tail(order) :
                         Tail(order)[i] = Tail(order)[k] => i = k
                  /\ {Tail(order)[i] : i \in DOMAIN Tail(order)} =
                         {order[i] : i \in DOMAIN order} \ {Head(order)}
                BY <4>1, TailExact DEF CacheExact
            <4>3. rest = Tail(order) /\ kept = results \ {Head(order)}
                BY <3>1
            <4>4. Len(rest) < MaxRememberedJobs
                BY <4>1, <4>2, <4>3, ProcessorAssumption
            <4> QED
                BY <4>2, <4>3, <4>4, Zenon DEF CacheExact
        <3>2. CASE ~full
            BY <3>2, ProcessorAssumption DEF CacheExact
        <3> QED
            BY <3>1, <3>2
    <2>3. kept \subseteq results
        OBVIOUS
    <2>4. job \notin {rest[i] : i \in DOMAIN rest}
        BY <1>2, <2>2, <2>3, Zenon
    <2> HIDE DEF rest, kept
    <2>5. /\ order' \in Seq(Jobs)
          /\ Len(order') = Len(rest) + 1
          /\ \A i, k \in DOMAIN order' : order'[i] = order'[k] => i = k
          /\ {order'[i] : i \in DOMAIN order'} = {rest[i] : i \in DOMAIN rest} \cup {job}
        BY <2>1, <2>2, <2>4, AppendExact
    <2>6. Len(order') <= MaxRememberedJobs
        BY <2>2, <2>5, ProcessorAssumption
    <2> QED
        BY <2>1, <2>2, <2>3, <2>5, <2>6 DEF CacheExact
<1> QED
    BY <1>1, <1>2

-----------------------------------------------------------------------------
(* Steps of a client                                                       *)

\* The step of one call: it keeps its job once it has one, it is sound where it
\* arrives, and it drops requests or sends its own.
LEMMA CallStep ==
    ASSUME ProcessorInv, NEW c \in Calls, NEW new \in CallState,
           call' = [call EXCEPT ![c] = new],
           UNCHANGED <<cache, processed>>,
           new.pc # "idle", CallSound(new),
           call[c].pc = "idle" \/ new.job = call[c].job,
           \A h \in handlers' : \/ h \in handlers
                                \/ /\ h \in HandlerState
                                   /\ h.call = c /\ h.job = new.job
                                   /\ h.status = 0
    PROVE  ProcessorInv'
<1>1. /\ call \in [Calls -> CallState]
      /\ handlers \subseteq HandlerState
      /\ results' = results /\ order' = order /\ processed' = processed
    BY DEF ProcessorInv, ProcessorTypeOK, cache
<1>2. /\ call'[c] = new
      /\ \A d \in Calls \ {c} : call'[d] = call[d]
    BY <1>1
<1>3. ProcessorTypeOK'
    <2>1. handlers' \subseteq HandlerState
        BY <1>1
    <2>2. call' \in [Calls -> CallState]
        BY <1>1
    <2> QED
        BY <1>1, <2>1, <2>2 DEF ProcessorInv, ProcessorTypeOK
<1>4. CallsSound'
    <2> SUFFICES ASSUME NEW d \in Calls PROVE CallSound(call[d])'
        BY DEF CallsSound
    <2>1. CASE d = c
        BY <1>1, <1>2, <2>1 DEF CallSound
    <2>2. CASE d # c
        <3>1. CallSound(call[d])
            BY DEF ProcessorInv, CallsSound
        <3> QED
            BY <1>1, <1>2, <2>2, <3>1 DEF CallSound
    <2> QED
        BY <2>1, <2>2
<1>5. HandlersSound'
    <2> SUFFICES ASSUME NEW h \in handlers'
                 PROVE  /\ call'[h.call].pc # "idle"
                        /\ h.job = call'[h.call].job
                        /\ AnswerSound(h)'
        BY DEF HandlersSound
    <2>1. CASE h \in handlers
        <3>1. /\ call[h.call].pc # "idle" /\ h.job = call[h.call].job
              /\ AnswerSound(h) /\ h.call \in Calls
            BY <1>1, <2>1 DEF ProcessorInv, HandlersSound, HandlerState
        <3>2. AnswerSound(h)'
            BY <1>1, <3>1 DEF AnswerSound
        <3>3. CASE h.call = c
            BY <1>2, <3>1, <3>2, <3>3
        <3>4. CASE h.call # c
            BY <1>2, <3>1, <3>2, <3>4
        <3> QED
            BY <3>3, <3>4
    <2>2. CASE h \notin handlers
        <3>1. h.call = c /\ h.job = new.job /\ h.status = 0
            BY <2>2
        <3>2. AnswerSound(h)'
            BY <3>1 DEF AnswerSound, Permanent
        <3> QED
            BY <1>2, <3>1, <3>2
    <2> QED
        BY <2>1, <2>2
<1>6. CacheSound'
    BY <1>1 DEF ProcessorInv, CacheSound, CacheExact
<1> QED
    BY <1>3, <1>4, <1>5, <1>6 DEF ProcessorInv

\* A call that has not begun.
LEMMA NoCallTyped ==
    /\ NoCall \in CallState /\ NoCall.pc = "idle" /\ NoCall.outcome = "none"
    /\ ~NoCall.sendable
BY ProcessorAssumption DEF NoCall, CallState

\* Process returns: nothing is lost but what it says must be so.
LEMMA ReturnStep ==
    ASSUME ProcessorInv, NEW c \in Calls, NEW outcome \in {"ok", "permanent", "error"},
           call[c].pc # "idle", Return(c, outcome),
           UNCHANGED <<cache, processed>>, handlers' \subseteq handlers,
           outcome = "ok" => call[c].job \in processed,
           outcome = "permanent" => ~call[c].sendable \/ call[c].job \in Refused
    PROVE  ProcessorInv'
<1> DEFINE new == [NoCall EXCEPT !.pc = "done", !.job = call[c].job,
                                 !.sendable = call[c].sendable,
                                 !.outcome = outcome]
<1>1. call[c] \in CallState /\ CallSound(call[c])
    BY DEF ProcessorInv, ProcessorTypeOK, CallsSound
<1>2. /\ new \in CallState /\ new.pc = "done" /\ new.job = call[c].job
      /\ new.outcome = outcome /\ new.sendable = call[c].sendable
    BY <1>1, NoCallTyped DEF CallState
<1>3. call' = [call EXCEPT ![c] = new]
    BY DEF Return
<1> HIDE DEF new
<1>4. CallSound(new)
    BY <1>1, <1>2 DEF CallSound
<1> QED
    BY <1>2, <1>3, <1>4, CallStep

\* A failed attempt ends in a backoff or in an error.
LEMMA FailureStep ==
    ASSUME ProcessorInv, NEW c \in Calls, call[c].pc \in {"send", "wait"},
           AfterFailure(c), UNCHANGED <<cache, processed>>, handlers' \subseteq handlers
    PROVE  ProcessorInv'
<1>1. call \in [Calls -> CallState] /\ call[c] \in CallState /\ CallSound(call[c])
    BY DEF ProcessorInv, ProcessorTypeOK, CallsSound
<1>2. CASE call[c].attempt >= MaxRetries
    <2>1. Return(c, "error")
        BY <1>2 DEF AfterFailure
    <2> QED
        BY <2>1, ReturnStep
<1>3. CASE ~(call[c].attempt >= MaxRetries)
    <2> DEFINE new == [call[c] EXCEPT !.pc = "backoff",
                           !.timer = call[c].backoff + call[c].backoff \div 2]
    <2>1. call' = [call EXCEPT ![c] = new]
        BY <1>1, <1>3 DEF AfterFailure, CallState
    <2>2. call[c].backoff + call[c].backoff \div 2 \in Nat
        BY <1>1 DEF CallState
    <2>3. /\ new \in CallState /\ new.pc = "backoff" /\ new.job = call[c].job
          /\ new.attempt = call[c].attempt /\ new.outcome = call[c].outcome
          /\ new.sendable = call[c].sendable
        BY <1>1, <2>2 DEF CallState
    <2> HIDE DEF new
    <2>4. CallSound(new)
        BY <1>1, <1>3, <2>3, ProcessorAssumption DEF CallSound, CallState
    <2> QED
        BY <2>1, <2>3, <2>4, CallStep
<1> QED
    BY <1>2, <1>3

\* The first lines of HTTPClient.Process keep the invariant.
LEMMA ProcessKeeps ==
    ASSUME ProcessorInv, NEW c \in Calls, NEW job \in Called, Process(c, job)
    PROVE  ProcessorInv'
<1>1. /\ 1 \in 0 .. MaxRetries /\ FirstBackoff \in Nat /\ job \in Jobs
      /\ call[c].pc = "idle"
      /\ handlers' = handlers /\ UNCHANGED <<cache, processed>>
    <2>1. 1 \in 0 .. MaxRetries /\ FirstBackoff \in Nat /\ job \in Jobs
        BY ProcessorAssumption
    <2>2. /\ call[c].pc = "idle"
          /\ handlers' = handlers /\ UNCHANGED <<cache, processed>>
        BY Zenon DEF Process
    <2> QED
        BY <2>1, <2>2
<1>2. ASSUME NEW sendable \in BOOLEAN,
             call' = [call EXCEPT ![c] =
                         [NoCall EXCEPT !.pc = "send", !.job = job, !.attempt = 1,
                                        !.backoff = FirstBackoff,
                                        !.sendable = sendable]]
      PROVE  ProcessorInv'
    <2> DEFINE new == [NoCall EXCEPT !.pc = "send", !.job = job, !.attempt = 1,
                                     !.backoff = FirstBackoff, !.sendable = sendable]
    <2>1. /\ new \in CallState /\ new.pc = "send" /\ new.attempt = 1
          /\ new.outcome = "none" /\ new.job = job
        BY <1>1, NoCallTyped DEF CallState
    <2>2. call' = [call EXCEPT ![c] = new]
        BY <1>2
    <2> HIDE DEF new
    <2>3. CallSound(new)
        BY <1>1, <2>1 DEF CallSound
    <2> QED
        BY <1>1, <2>1, <2>2, <2>3, CallStep
<1>3. ASSUME call' = [call EXCEPT ![c] =
                         [NoCall EXCEPT !.pc = "done", !.job = job,
                                        !.outcome = "permanent"]]
      PROVE  ProcessorInv'
    <2> DEFINE new == [NoCall EXCEPT !.pc = "done", !.job = job,
                                     !.outcome = "permanent"]
    <2>1. /\ new \in CallState /\ new.pc = "done" /\ new.job = job
          /\ new.outcome = "permanent" /\ ~new.sendable
        BY <1>1, NoCallTyped DEF CallState
    <2>2. call' = [call EXCEPT ![c] = new]
        BY <1>3
    <2> HIDE DEF new
    <2>3. CallSound(new)
        BY <1>1, <2>1 DEF CallSound
    <2> QED
        BY <1>1, <2>1, <2>2, <2>3, CallStep
<1> QED
    BY <1>2, <1>3 DEF Process

\* So does every later step of a call, and its cancellation.
LEMMA ClientKeeps ==
    ASSUME ProcessorInv, NEW c \in Calls, ClientNext(c) \/ Cancel(c)
    PROVE  ProcessorInv'
<1>1. /\ call \in [Calls -> CallState] /\ call[c] \in CallState /\ CallSound(call[c])
      /\ handlers \subseteq HandlerState
    BY DEF ProcessorInv, ProcessorTypeOK, CallsSound
<1>2. CASE DoOnce(c)
    <2> DEFINE new == [call[c] EXCEPT !.pc = "wait", !.timer = Timeout]
    <2>1. /\ call' = [call EXCEPT ![c] = new] /\ call[c].pc = "send"
          /\ handlers' = handlers \cup {Request(c, call[c].job, 0)}
          /\ UNCHANGED <<cache, processed>>
        BY <1>1, <1>2 DEF DoOnce, CallState
    <2>2. /\ new \in CallState /\ new.pc = "wait" /\ new.job = call[c].job
          /\ new.attempt = call[c].attempt /\ new.outcome = call[c].outcome
          /\ new.sendable = call[c].sendable
        BY <1>1, ProcessorAssumption DEF CallState
    <2> HIDE DEF new
    <2>3. CallSound(new)
        BY <1>1, <2>1, <2>2 DEF CallSound
    <2>4. call[c].attempt \in 1 .. MaxRetries /\ call[c].job \in Jobs
        BY <1>1, <2>1, ProcessorAssumption DEF CallSound, CallState
    <2>5. LET r == Request(c, call[c].job, 0)
          IN  r \in HandlerState /\ r.call = c /\ r.job = new.job /\ r.status = 0
        BY <2>2, <2>4 DEF Request, HandlerState
    <2>6. \A h \in handlers' : \/ h \in handlers
                               \/ /\ h \in HandlerState
                                  /\ h.call = c /\ h.job = new.job
                                  /\ h.status = 0
        BY <2>1, <2>5, Zenon
    <2> QED
        BY <2>1, <2>2, <2>3, <2>6, CallStep
<1>3. CASE TransportFails(c)
    BY <1>3, FailureStep DEF TransportFails
<1>4. CASE ReceiveAnswer(c)
    <2>1. PICK h \in handlers :
              /\ h.call = c /\ Awaited(h)
              /\ handlers' = handlers \ {h}
              /\ CASE h.status = 200       -> Return(c, "ok")
                   [] Permanent(h.status)  -> Return(c, "permanent")
                   [] OTHER                -> AfterFailure(c)
              /\ UNCHANGED <<cache, processed>>
        BY <1>4 DEF ReceiveAnswer
    <2>2. call[c].pc = "wait" /\ h.job = call[c].job /\ AnswerSound(h)
        BY <2>1 DEF Awaited, ProcessorInv, HandlersSound
    <2>3. CASE h.status = 200
        <3>1. Return(c, "ok")
            BY <2>1, <2>3 DEF Permanent
        <3> QED
            BY <2>1, <2>2, <2>3, <3>1, ReturnStep DEF AnswerSound
    <2>4. CASE h.status # 200 /\ Permanent(h.status)
        <3>1. Return(c, "permanent")
            BY <2>1, <2>4
        <3> QED
            BY <2>1, <2>2, <2>4, <3>1, ReturnStep DEF AnswerSound
    <2>5. CASE h.status # 200 /\ ~Permanent(h.status)
        <3>1. AfterFailure(c)
            BY <2>1, <2>5
        <3> QED
            BY <2>1, <2>2, <3>1, FailureStep
    <2> QED
        BY <2>3, <2>4, <2>5
<1>5. CASE BackoffOver(c)
    <2> DEFINE next   == call[c].attempt + 1
               longer == 2 * call[c].backoff
               new    == [call[c] EXCEPT !.pc = "send", !.attempt = next,
                                         !.backoff = longer, !.timer = 0]
    <2>1. /\ call' = [call EXCEPT ![c] = new] /\ call[c].pc = "backoff"
          /\ handlers' = handlers /\ UNCHANGED <<cache, processed>>
        BY <1>1, <1>5 DEF BackoffOver, CallState
    <2>2. next \in 0 .. MaxRetries /\ next >= 1 /\ longer \in Nat
        BY <1>1, <2>1, ProcessorAssumption DEF CallSound, CallState
    <2> HIDE DEF next, longer
    <2>3. /\ new \in CallState /\ new.pc = "send" /\ new.job = call[c].job
          /\ new.attempt = next /\ new.outcome = call[c].outcome
          /\ new.sendable = call[c].sendable
        BY <1>1, <2>2 DEF CallState
    <2> HIDE DEF new
    <2>4. CallSound(new)
        BY <1>1, <2>1, <2>2, <2>3 DEF CallSound
    <2> QED
        BY <2>1, <2>3, <2>4, CallStep
<1>6. CASE BackoffCancelled(c)
    BY <1>6, ReturnStep DEF BackoffCancelled
<1>7. CASE Cancel(c)
    <2> DEFINE new == [call[c] EXCEPT !.cancelled = TRUE]
    <2>1. /\ call' = [call EXCEPT ![c] = new]
          /\ call[c].pc \in {"send", "wait", "backoff"}
          /\ handlers' = handlers /\ UNCHANGED <<cache, processed>>
        BY <1>1, <1>7 DEF Cancel, CallState
    <2>2. /\ new \in CallState /\ new.pc = call[c].pc /\ new.job = call[c].job
          /\ new.attempt = call[c].attempt /\ new.outcome = call[c].outcome
          /\ new.sendable = call[c].sendable
        BY <1>1 DEF CallState
    <2> HIDE DEF new
    <2>3. CallSound(new)
        BY <1>1, <2>2 DEF CallSound
    <2> QED
        BY <2>1, <2>2, <2>3, CallStep
<1>8. CASE BuildFails(c)
    BY <1>8, ReturnStep DEF BuildFails
<1> QED
    BY <1>2, <1>3, <1>4, <1>5, <1>6, <1>7, <1>8 DEF ClientNext

-----------------------------------------------------------------------------
(* Steps of the processor                                                  *)

\* A handler changes the status of its own request and nothing else about it.
LEMMA AnswerStep ==
    ASSUME ProcessorInv, NEW h \in handlers,
           NEW status \in {0, 1, 200, 400, 429, 502}, Answer(h, status),
           UNCHANGED call, processed \subseteq processed', processed' \subseteq Jobs,
           CacheSound', order' \in Seq(Jobs),
           status = 200 => h.job \in processed',
           status = 1 => h.job \notin Refused,
           Permanent(status) => h.job \in Refused
    PROVE  ProcessorInv'
<1> DEFINE answered == [h EXCEPT !.status = status]
<1>1. /\ call \in [Calls -> CallState] /\ handlers \subseteq HandlerState
      /\ h \in HandlerState
    BY DEF ProcessorInv, ProcessorTypeOK
<1>2. /\ answered \in HandlerState /\ answered.call = h.call
      /\ answered.job = h.job /\ answered.status = status
    BY <1>1 DEF HandlerState
<1>3. \A g \in handlers' : g \in handlers \/ g = answered
    BY Zenon DEF Answer
<1> HIDE DEF answered
<1>4. ProcessorTypeOK'
    <2>1. handlers' \subseteq HandlerState
        BY <1>1, <1>2, <1>3
    <2>2. results' \subseteq Jobs
        BY DEF CacheSound
    <2> QED
        BY <1>1, <2>1, <2>2 DEF ProcessorTypeOK
<1>5. CallsSound'
    <2> SUFFICES ASSUME NEW d \in Calls PROVE CallSound(call[d])'
        BY DEF CallsSound
    <2>1. CallSound(call[d])
        BY DEF ProcessorInv, CallsSound
    <2> QED
        BY <2>1 DEF CallSound
<1>6. HandlersSound'
    <2> SUFFICES ASSUME NEW g \in handlers'
                 PROVE  /\ call'[g.call].pc # "idle"
                        /\ g.job = call'[g.call].job
                        /\ AnswerSound(g)'
        BY DEF HandlersSound
    <2>1. CASE g \in handlers
        BY <2>1 DEF ProcessorInv, HandlersSound, AnswerSound
    <2>2. CASE g = answered
        <3>1. call[h.call].pc # "idle" /\ h.job = call[h.call].job
            BY DEF ProcessorInv, HandlersSound
        <3>2. AnswerSound(g)'
            BY <1>2, <2>2 DEF AnswerSound
        <3> QED
            BY <1>2, <2>2, <3>1, <3>2
    <2> QED
        BY <1>3, <2>1, <2>2
<1> QED
    BY <1>4, <1>5, <1>6 DEF ProcessorInv

\* The mock processor says of a job only what is so: 200 once it is processed or
\* remembered, 400 when it is refused.
LEMMA HandlerKeeps ==
    ASSUME ProcessorInv, NEW h \in handlers, HandlerNext(h)
    PROVE  ProcessorInv'
<1>1. /\ h.job \in Jobs /\ order \in Seq(Jobs) /\ processed \subseteq Jobs
      /\ CacheSound
    BY DEF ProcessorInv, ProcessorTypeOK, HandlerState
<1>2. ASSUME NEW status \in {0, 1, 200, 400, 429, 502}, Answer(h, status),
             UNCHANGED <<call, cache, processed>>,
             status = 200 => h.job \in processed,
             status = 1 => h.job \notin Refused,
             Permanent(status) => h.job \in Refused
      PROVE  ProcessorInv'
    <2>1. /\ call' = call /\ results' = results /\ order' = order
          /\ processed' = processed
        BY <1>2 DEF cache
    <2>2. CacheSound'
        BY <1>1, <2>1 DEF CacheSound, CacheExact
    <2> QED
        BY <1>1, <1>2, <2>1, <2>2, AnswerStep
<1>3. ~Permanent(1) /\ ~Permanent(200) /\ ~Permanent(429) /\ ~Permanent(502)
    BY DEF Permanent
<1>4. CASE Malformed(h)
    BY <1>2, <1>4 DEF Malformed
<1>5. CASE Cached(h)
    <2>1. h.job \in processed
        BY <1>1, <1>5 DEF Cached, CacheSound
    <2> QED
        BY <1>2, <1>3, <1>5, <2>1 DEF Cached
<1>6. CASE Download(h)
    BY <1>2, <1>3, <1>6 DEF Download
<1>7. CASE DownloadFails(h)
    BY <1>2, <1>3, <1>7 DEF DownloadFails
<1>8. CASE TooManyRequests(h)
    BY <1>2, <1>3, <1>8 DEF TooManyRequests
<1>9. CASE Finish(h)
    <2>1. /\ Remember(h.job) /\ processed' = processed \cup {h.job}
          /\ Answer(h, 200) /\ UNCHANGED call
        BY <1>9 DEF Finish
    <2>2. /\ order' \in Seq(Jobs) /\ CacheExact'
          /\ results' \subseteq results \cup {h.job}
        BY <1>1, <2>1, RememberExact DEF CacheSound
    <2>3. h.job \notin Refused
        BY <1>9 DEF Finish, ProcessorInv, HandlersSound, AnswerSound
    <2>4. CacheSound'
        BY <1>1, <2>1, <2>2, <2>3 DEF CacheSound
    <2> QED
        BY <1>1, <1>3, <2>1, <2>2, <2>4, AnswerStep
<1> QED
    BY <1>4, <1>5, <1>6, <1>7, <1>8, <1>9 DEF HandlerNext

\* A restart forgets requests and results; nothing else relies on them.
LEMMA RestartKeeps ==
    ASSUME ProcessorInv, Restart
    PROVE  ProcessorInv'
<1>1. /\ handlers' = {} /\ results' = {} /\ order' = << >>
      /\ call' = call /\ processed' = processed
    BY DEF Restart
<1>2. DOMAIN order' = {} /\ Len(order') = 0 /\ order' \in Seq(Jobs)
    BY <1>1
<1>3. CacheSound'
    BY <1>1, <1>2, ProcessorAssumption DEF ProcessorInv, CacheSound, CacheExact
<1>4. ProcessorTypeOK'
    BY <1>1, <1>2 DEF ProcessorInv, ProcessorTypeOK
<1>5. CallsSound'
    BY <1>1 DEF ProcessorInv, CallsSound, CallSound
<1>6. HandlersSound'
    BY <1>1 DEF HandlersSound
<1> QED
    BY <1>3, <1>4, <1>5, <1>6 DEF ProcessorInv

\* Time changes timers only.
LEMMA TickKeeps ==
    ASSUME ProcessorInv, Tick
    PROVE  ProcessorInv'
<1>1. /\ call \in [Calls -> CallState] /\ handlers \subseteq HandlerState
      /\ handlers' = handlers /\ results' = results /\ order' = order
      /\ processed' = processed
    BY DEF ProcessorInv, ProcessorTypeOK, Tick, cache
<1>2. ASSUME NEW c \in Calls
      PROVE  /\ call'[c] \in CallState
             /\ call'[c].pc = call[c].pc /\ call'[c].job = call[c].job
             /\ call'[c].attempt = call[c].attempt
             /\ call'[c].outcome = call[c].outcome
             /\ call'[c].sendable = call[c].sendable
    <2>1. call[c] \in CallState
        BY <1>1
    <2> DEFINE left == call[c].timer - 1
               gone == call[c].elapsed + 1
    <2>2. CASE call[c].timer = 0
        <3>1. call'[c] = call[c]
            BY <2>2 DEF Tick
        <3> QED
            BY <2>1, <3>1
    <2>3. CASE call[c].timer # 0
        <3>1. call'[c] = [call[c] EXCEPT !.timer = left, !.elapsed = gone]
            BY <2>3 DEF Tick
        <3>2. left \in Nat /\ gone \in Nat
            BY <2>1, <2>3 DEF CallState
        <3> HIDE DEF left, gone
        <3> QED
            BY <2>1, <3>1, <3>2 DEF CallState
    <2> QED
        BY <2>2, <2>3
<1>3. call' \in [Calls -> CallState]
    <2>1. call' = [c \in Calls |->
                      IF call[c].timer = 0 THEN call[c]
                      ELSE [call[c] EXCEPT !.timer = @ - 1, !.elapsed = @ + 1]]
        BY DEF Tick
    <2>2. call' = [c \in Calls |-> call'[c]]
        BY <2>1, Zenon
    <2> QED
        BY <1>2, <2>2, Zenon
<1>4. ProcessorTypeOK'
    BY <1>1, <1>3 DEF ProcessorInv, ProcessorTypeOK
<1>5. CallsSound'
    <2> SUFFICES ASSUME NEW c \in Calls PROVE CallSound(call[c])'
        BY DEF CallsSound
    <2>1. CallSound(call[c])
        BY DEF ProcessorInv, CallsSound
    <2> QED
        BY <1>1, <1>2, <2>1 DEF CallSound
<1>6. HandlersSound'
    <2> SUFFICES ASSUME NEW h \in handlers
                 PROVE  /\ call'[h.call].pc # "idle"
                        /\ h.job = call'[h.call].job
                        /\ AnswerSound(h)'
        BY <1>1 DEF HandlersSound
    <2>1. /\ call[h.call].pc # "idle" /\ h.job = call[h.call].job
          /\ AnswerSound(h) /\ h.call \in Calls
        BY <1>1 DEF ProcessorInv, HandlersSound, HandlerState
    <2> QED
        BY <1>1, <1>2, <2>1 DEF AnswerSound
<1>7. CacheSound'
    BY <1>1 DEF ProcessorInv, CacheSound, CacheExact
<1> QED
    BY <1>4, <1>5, <1>6, <1>7 DEF ProcessorInv

-----------------------------------------------------------------------------
(* The theorems                                                            *)

\* Nothing has been called yet, and what is remembered has been processed.
LEMMA InitSound == ProcessorInit => ProcessorInv
<1> SUFFICES ASSUME ProcessorInit PROVE ProcessorInv
    OBVIOUS
<1> DEFINE n == Cardinality(Earlier)
<1>1. /\ call = [c \in Calls |-> NoCall] /\ handlers = {}
      /\ order \in [1 .. n -> Earlier]
      /\ \A i, k \in DOMAIN order : order[i] = order[k] => i = k
      /\ results = {order[i] : i \in DOMAIN order} /\ processed = results
    BY DEF ProcessorInit
<1>2. n \in Nat /\ n <= MaxRememberedJobs /\ Earlier \subseteq Jobs \ Refused
    BY ProcessorAssumption
<1> HIDE DEF n
<1>3. order \in Seq(Jobs) /\ Len(order) = n /\ results \subseteq Jobs \ Refused
    BY <1>1, <1>2
<1>4. CacheSound
    BY <1>1, <1>2, <1>3 DEF CacheSound, CacheExact
<1>5. ProcessorTypeOK
    BY <1>1, <1>3, NoCallTyped DEF ProcessorTypeOK
<1>6. CallsSound
    BY <1>1, NoCallTyped DEF CallsSound, CallSound
<1>7. HandlersSound
    BY <1>1 DEF HandlersSound
<1> QED
    BY <1>4, <1>5, <1>6, <1>7 DEF ProcessorInv

\* The invariant is inductive.
LEMMA NextSound == ProcessorInv /\ [ProcessorNext]_pvars => ProcessorInv'
<1> SUFFICES ASSUME ProcessorInv, [ProcessorNext]_pvars PROVE ProcessorInv'
    OBVIOUS
<1>1. CASE \E c \in Calls, job \in Called : Process(c, job)
    BY <1>1, ProcessKeeps
<1>2. CASE \E c \in Calls : ClientNext(c) \/ Cancel(c)
    BY <1>2, ClientKeeps
<1>3. CASE \E h \in handlers : HandlerNext(h)
    BY <1>3, HandlerKeeps
<1>4. CASE Restart
    BY <1>4, RestartKeeps
<1>5. CASE Tick
    BY <1>5, TickKeeps
<1>6. CASE UNCHANGED pvars
    BY <1>6 DEF pvars, cache, ProcessorInv, ProcessorTypeOK, CallsSound, CallSound,
                HandlersSound, AnswerSound, CacheSound, CacheExact
<1> QED
    BY <1>1, <1>2, <1>3, <1>4, <1>5, <1>6 DEF ProcessorNext

\* It holds in every state of the specification.
LEMMA InvSound == ProcessorSpec => []ProcessorInv
BY InitSound, NextSound, PTL DEF ProcessorSpec

\* Calls, requests and the replay cache keep the shape the code gives them, and
\* no request carries an attempt beyond MOCK_MAX_RETRIES.
THEOREM ProcessorTyped == ProcessorSpec => []ProcessorTypeOK
<1>1. ProcessorInv => ProcessorTypeOK
    BY DEF ProcessorInv
<1> QED
    BY <1>1, InvSound, PTL

\* For any size of the replay cache and any number of handlers that remember
\* jobs at the same time, `results` and `order` hold the same jobs and no more
\* than maxRememberedJobs of them (cmd/mockprocessor/main.go, remember).
THEOREM CacheStaysExact == ProcessorSpec => []CacheExact
<1>1. ProcessorInv => CacheExact
    BY DEF ProcessorInv, CacheSound
<1> QED
    BY <1>1, InvSound, PTL

\* A call of HTTPClient.Process that returns a summary is about a job that has
\* been processed, whatever was lost, retried, replayed or restarted before.
THEOREM OkIsProcessed == ProcessorSpec => []OkMeansProcessed
<1>1. ProcessorInv => OkMeansProcessed
    BY DEF ProcessorInv, CallsSound, CallSound, OkMeansProcessed
<1> QED
    BY <1>1, InvSound, PTL

\* A call of HTTPClient.Process returns ErrPermanent only when its request could
\* not be made (the two errors before httpClient.Do), or when the processor
\* refuses its job, which then nobody has processed: whatever was lost, delayed,
\* retried, cut off or restarted before.
THEOREM PermanentIsHopeless == ProcessorSpec => []PermanentMeansHopeless
<1>1. ProcessorInv => PermanentMeansHopeless
    BY DEF ProcessorInv, CallsSound, CallSound, CacheSound, PermanentMeansHopeless
<1> QED
    BY <1>1, InvSound, PTL

-----------------------------------------------------------------------------
(* How long a call takes                                                   *)

\* Induction over the numbers, for a set: the smallest number that is not in it has
\* a predecessor that is.
LEMMA NumbersInduct ==
    ASSUME NEW S \in SUBSET Nat, 0 \in S, \A n \in S : n + 1 \in S
    PROVE  S = Nat
<1> DEFINE T == Nat \ S
<1> SUFFICES ASSUME T # {} PROVE FALSE
    OBVIOUS
<1>1. PICK m \in T : \A k \in T : ~(<<k, m>> \in OpToRel(<, Nat))
    BY WFMin, NatLessThanWellFounded
<1>2. \A k \in T : ~(k < m)
    BY <1>1 DEF OpToRel
<1>3. m - 1 \in S
    BY <1>2
<1> QED
    BY <1>3

\* g lists the backoffs of n doublings.
Doubles(g, n) ==
    /\ g \in [0 .. n -> Nat]
    /\ g[0] = FirstBackoff
    /\ \A k \in 0 .. n - 1 : g[k + 1] = 2 * g[k]

\* There is such a list of every length.
LEMMA DoublesExist == \A n \in Nat : \E g : Doubles(g, n)
<1> DEFINE S == {n \in Nat : \E g : Doubles(g, n)}
<1>1. 0 \in S
    <2>1. Doubles([k \in 0 .. 0 |-> FirstBackoff], 0)
        BY ProcessorAssumption DEF Doubles
    <2> QED
        BY <2>1
<1>2. ASSUME NEW n \in S
      PROVE  n + 1 \in S
    <2>1. PICK g : Doubles(g, n)
        OBVIOUS
    <2> DEFINE f == [k \in 0 .. n + 1 |-> IF k = n + 1 THEN 2 * g[n] ELSE g[k]]
    <2>2. Doubles(f, n + 1)
        BY <2>1 DEF Doubles
    <2> QED
        BY <2>2
<1> HIDE DEF S
<1>3. S \in SUBSET Nat
    BY DEF S
<1>4. S = Nat
    BY <1>1, <1>2, <1>3, NumbersInduct
<1> QED
    BY <1>4 DEF S

\* A longer list continues a shorter one.
LEMMA DoublesAgree ==
    ASSUME NEW m \in Nat, NEW n \in Nat, NEW g, NEW f, Doubles(g, m), Doubles(f, n)
    PROVE  \A k \in Nat : k <= m /\ k <= n => g[k] = f[k]
<1> DEFINE S == {k \in Nat : k <= m /\ k <= n => g[k] = f[k]}
<1>1. 0 \in S
    BY DEF Doubles
<1>2. ASSUME NEW k \in S
      PROVE  k + 1 \in S
    BY DEF Doubles
<1> HIDE DEF S
<1>3. S \in SUBSET Nat
    BY DEF S
<1>4. S = Nat
    BY <1>1, <1>2, <1>3, NumbersInduct
<1> QED
    BY <1>4 DEF S

\* So the recursion that defines Doubled has a solution.
LEMMA DoubledDefined ==
    Doubled = [n \in Nat |-> IF n = 0 THEN FirstBackoff ELSE 2 * Doubled[n - 1]]
<1> DEFINE list(n) == CHOOSE g : Doubles(g, n)
           f == [n \in Nat |-> list(n)[n]]
<1>1. \A n \in Nat : Doubles(list(n), n)
    BY DoublesExist
<1> HIDE DEF list
<1>2. ASSUME NEW n \in Nat
      PROVE  f[n] = IF n = 0 THEN FirstBackoff ELSE 2 * f[n - 1]
    <2>1. CASE n = 0
        BY <1>1, <2>1 DEF Doubles
    <2>2. CASE n # 0
        <3>1. n - 1 \in Nat /\ n - 1 <= n /\ n - 1 \in 0 .. n - 1 /\ (n - 1) + 1 = n
            BY <2>2
        <3>2. list(n)[n] = 2 * list(n)[n - 1]
            BY <1>1, <3>1 DEF Doubles
        <3>3. list(n)[n - 1] = list(n - 1)[n - 1]
            BY <1>1, <3>1, DoublesAgree
        <3> QED
            BY <2>2, <3>1, <3>2, <3>3
    <2> QED
        BY <2>1, <2>2
<1>3. f = [n \in Nat |-> IF n = 0 THEN FirstBackoff ELSE 2 * f[n - 1]]
    BY <1>2, Zenon
<1> HIDE DEF f
<1> QED
    BY <1>3, Zenon DEF Doubled

\* What Doubled is, without the recursion.
LEMMA DoubledIs ==
    /\ Doubled[0] = FirstBackoff
    /\ \A n \in Nat : Doubled[n] \in Nat /\ Doubled[n + 1] = 2 * Doubled[n]
<1>1. \A n \in Nat : Doubled[n] = IF n = 0 THEN FirstBackoff ELSE 2 * Doubled[n - 1]
    BY DoubledDefined, Zenon
<1>2. Doubled[0] = FirstBackoff
    BY <1>1
<1>3. \A n \in Nat : Doubled[n + 1] = 2 * Doubled[n]
    <2> SUFFICES ASSUME NEW n \in Nat PROVE Doubled[n + 1] = 2 * Doubled[n]
        OBVIOUS
    <2>1. n + 1 \in Nat /\ n + 1 # 0 /\ (n + 1) - 1 = n
        OBVIOUS
    <2> QED
        BY <1>1, <2>1
<1> DEFINE S == {n \in Nat : Doubled[n] \in Nat}
<1>4. 0 \in S
    BY <1>2, ProcessorAssumption
<1>5. \A n \in S : n + 1 \in S
    BY <1>3
<1> HIDE DEF S
<1>6. S \in SUBSET Nat
    BY DEF S
<1>7. S = Nat
    BY <1>4, <1>5, <1>6, NumbersInduct
<1> QED
    BY <1>2, <1>3, <1>7 DEF S

\* The backoffs grow.
LEMMA DoubledGrows ==
    ASSUME NEW m \in Nat
    PROVE  \A n \in Nat : n <= m => Doubled[n] <= Doubled[m]
<1> DEFINE S == {k \in Nat : \A n \in Nat : n <= k => Doubled[n] <= Doubled[k]}
<1>1. 0 \in S
    BY DoubledIs
<1>2. ASSUME NEW k \in S
      PROVE  k + 1 \in S
    <2> SUFFICES ASSUME NEW n \in Nat, n <= k + 1
                 PROVE  Doubled[n] <= Doubled[k + 1]
        OBVIOUS
    <2>1. /\ Doubled[n] \in Nat /\ Doubled[k] \in Nat
          /\ Doubled[k + 1] = 2 * Doubled[k]
        BY DoubledIs
    <2>2. CASE n <= k
        BY <2>1, <2>2
    <2>3. CASE n = k + 1
        BY <2>1, <2>3
    <2> QED
        BY <2>2, <2>3
<1> HIDE DEF S
<1>3. S \in SUBSET Nat
    BY DEF S
<1>4. S = Nat
    BY <1>1, <1>2, <1>3, NumbersInduct
<1> QED
    BY <1>4 DEF S

\* The longest that the waits take before the backoff is b.
Waits(b) == (3 * (b - FirstBackoff)) \div 2

\* A call has used up no more than its timeouts and waits so far, the time left on
\* its timer included.
TimeSound(s) ==
    /\ s.pc \in {"idle", "done"} => s.elapsed = 0 /\ s.timer = 0
    /\ s.pc \notin {"idle", "done"} => s.backoff = Doubled[s.attempt - 1]
    /\ s.pc = "send" =>
           s.timer = 0 /\ s.elapsed <= (s.attempt - 1) * Timeout + Waits(s.backoff)
    /\ s.pc = "wait" =>
           s.elapsed + s.timer <= s.attempt * Timeout + Waits(s.backoff)
    /\ s.pc = "backoff" =>
           s.elapsed + s.timer <= s.attempt * Timeout + Waits(2 * s.backoff)

TimesSound == \A c \in Calls : TimeSound(call[c])

\* One more wait.
LEMMA WaitsAdd ==
    ASSUME NEW b \in Nat
    PROVE  /\ Waits(b) \in Int /\ Waits(2 * b) \in Int
           /\ Waits(b) + b + b \div 2 <= Waits(2 * b)
BY ProcessorAssumption DEF Waits

\* One more attempt.
LEMMA AttemptsAdd ==
    ASSUME NEW a \in Nat
    PROVE  /\ a * Timeout \in Nat /\ (a - 1) * Timeout \in Int
           /\ a * Timeout = (a - 1) * Timeout + Timeout
           /\ (a + 1) - 1 = a
BY ProcessorAssumption

\* The time of a call after a failed attempt.
LEMMA FailureInTime ==
    ASSUME ProcessorInv, NEW c \in Calls, call[c].pc \in {"send", "wait"},
           AfterFailure(c), TimeSound(call[c])
    PROVE  TimeSound(call'[c])
<1> DEFINE s == call[c]
<1>1. call \in [Calls -> CallState] /\ s \in CallState /\ s.attempt \in Nat
    BY ProcessorAssumption DEF ProcessorInv, ProcessorTypeOK, CallState
<1>2. CASE s.attempt >= MaxRetries
    <2>1. /\ call'[c].pc = "done" /\ call'[c].elapsed = 0 /\ call'[c].timer = 0
        BY <1>1, <1>2 DEF AfterFailure, Return, NoCall
    <2> QED
        BY <2>1 DEF TimeSound
<1>3. CASE ~(s.attempt >= MaxRetries)
    <2>1. call'[c] = [s EXCEPT !.pc = "backoff", !.timer = s.backoff + s.backoff \div 2]
        BY <1>1, <1>3 DEF AfterFailure, CallState
    <2>2. /\ call'[c].pc = "backoff" /\ call'[c].attempt = s.attempt
          /\ call'[c].backoff = s.backoff /\ call'[c].elapsed = s.elapsed
          /\ call'[c].timer = s.backoff + s.backoff \div 2
        BY <1>1, <2>1 DEF CallState
    <2>3. s.elapsed <= s.attempt * Timeout + Waits(s.backoff)
        <3>1. /\ s.elapsed \in Nat /\ s.timer \in Nat /\ s.backoff \in Nat
            BY <1>1 DEF CallState
        <3> QED
            BY <1>1, <3>1, WaitsAdd, AttemptsAdd, ProcessorAssumption DEF TimeSound
    <2>4. s.elapsed + (s.backoff + s.backoff \div 2)
              <= s.attempt * Timeout + Waits(2 * s.backoff)
        <3>1. s.elapsed \in Nat /\ s.backoff \in Nat /\ s.backoff \div 2 \in Nat
            BY <1>1 DEF CallState
        <3> QED
            BY <1>1, <2>3, <3>1, WaitsAdd, AttemptsAdd
    <2>5. s.backoff = Doubled[s.attempt - 1]
        BY DEF TimeSound
    <2> QED
        BY <2>2, <2>4, <2>5 DEF TimeSound
<1> QED
    BY <1>2, <1>3

\* Every step of a call keeps to the time it has.
LEMMA ClientInTime ==
    ASSUME ProcessorInv, NEW c \in Calls, ClientNext(c) \/ Cancel(c), TimeSound(call[c])
    PROVE  TimeSound(call'[c])
<1> DEFINE s == call[c]
<1>1. /\ call \in [Calls -> CallState] /\ s \in CallState /\ s.attempt \in Nat
      /\ s.elapsed \in Nat /\ s.timer \in Nat /\ s.backoff \in Nat
      /\ CallSound(s)
    BY ProcessorAssumption DEF ProcessorInv, ProcessorTypeOK, CallsSound, CallState
<1>2. ASSUME NEW outcome, Return(c, outcome)
      PROVE  TimeSound(call'[c])
    <2>1. call'[c].pc = "done" /\ call'[c].elapsed = 0 /\ call'[c].timer = 0
        BY <1>1, <1>2 DEF Return, NoCall
    <2> QED
        BY <2>1 DEF TimeSound
<1>3. CASE DoOnce(c)
    <2>1. /\ s.pc = "send" /\ call'[c] = [s EXCEPT !.pc = "wait", !.timer = Timeout]
        BY <1>1, <1>3 DEF DoOnce, CallState
    <2>2. /\ call'[c].pc = "wait" /\ call'[c].attempt = s.attempt
          /\ call'[c].backoff = s.backoff /\ call'[c].elapsed = s.elapsed
          /\ call'[c].timer = Timeout
        BY <1>1, <2>1 DEF CallState
    <2>3. s.elapsed + Timeout <= s.attempt * Timeout + Waits(s.backoff)
        <3> DEFINE before == (s.attempt - 1) * Timeout
                   w      == Waits(s.backoff)
        <3>1. s.elapsed <= before + w
            BY <2>1 DEF TimeSound
        <3>2. before \in Int /\ s.attempt * Timeout = before + Timeout
            BY <1>1, AttemptsAdd
        <3>3. w \in Int /\ Timeout \in Nat
            BY <1>1, WaitsAdd, ProcessorAssumption
        <3> HIDE DEF before, w
        <3>4. s.elapsed + Timeout <= (before + Timeout) + w
            BY <1>1, <3>1, <3>2, <3>3
        <3> QED
            BY <3>2, <3>4 DEF w
    <2> QED
        BY <2>1, <2>2, <2>3 DEF TimeSound
<1>4. CASE TransportFails(c)
    BY <1>4, FailureInTime DEF TransportFails
<1>5. CASE ReceiveAnswer(c)
    <2>1. PICK h \in handlers :
              /\ h.call = c /\ Awaited(h)
              /\ CASE h.status = 200       -> Return(c, "ok")
                   [] Permanent(h.status)  -> Return(c, "permanent")
                   [] OTHER                -> AfterFailure(c)
        BY <1>5 DEF ReceiveAnswer
    <2>2. s.pc = "wait"
        BY <2>1 DEF Awaited
    <2>3. Return(c, "ok") \/ Return(c, "permanent") \/ AfterFailure(c)
        BY <2>1
    <2> QED
        BY <1>2, <2>2, <2>3, FailureInTime
<1>6. CASE BackoffOver(c)
    <2> DEFINE next   == s.attempt + 1
               longer == 2 * s.backoff
    <2>1. /\ s.pc = "backoff"
          /\ call'[c] = [s EXCEPT !.pc = "send", !.attempt = next,
                                  !.backoff = longer, !.timer = 0]
        BY <1>1, <1>6 DEF BackoffOver, CallState
    <2>2. /\ next - 1 = s.attempt /\ longer = Doubled[s.attempt]
        <3>1. s.attempt - 1 \in Nat /\ (s.attempt - 1) + 1 = s.attempt
            BY <1>1, <2>1 DEF CallSound
        <3>2. s.backoff = Doubled[s.attempt - 1]
            BY <2>1 DEF TimeSound
        <3> QED
            BY <3>1, <3>2, DoubledIs
    <2>3. s.elapsed <= s.attempt * Timeout + Waits(longer)
        BY <1>1, <2>1, WaitsAdd, AttemptsAdd DEF TimeSound
    <2> HIDE DEF next, longer
    <2>4. /\ call'[c].pc = "send" /\ call'[c].attempt = next
          /\ call'[c].backoff = longer /\ call'[c].elapsed = s.elapsed
          /\ call'[c].timer = 0
        BY <1>1, <2>1 DEF CallState
    <2> QED
        BY <2>2, <2>3, <2>4 DEF TimeSound
<1>7. CASE BackoffCancelled(c)
    BY <1>2, <1>7 DEF BackoffCancelled
<1>8. CASE Cancel(c)
    <2>1. call'[c] = [s EXCEPT !.cancelled = TRUE]
        BY <1>1, <1>8 DEF Cancel, CallState
    <2>2. /\ call'[c].pc = s.pc /\ call'[c].attempt = s.attempt
          /\ call'[c].backoff = s.backoff /\ call'[c].elapsed = s.elapsed
          /\ call'[c].timer = s.timer
        BY <1>1, <2>1 DEF CallState
    <2> QED
        BY <2>2 DEF TimeSound
<1>9. CASE BuildFails(c)
    BY <1>2, <1>9 DEF BuildFails
<1> QED
    BY <1>3, <1>4, <1>5, <1>6, <1>7, <1>8, <1>9 DEF ClientNext

\* Steps of one call leave the others alone.
LEMMA OthersKept ==
    ASSUME ProcessorInv, NEW c \in Calls,
           ClientNext(c) \/ Cancel(c) \/ \E job \in Called : Process(c, job),
           NEW d \in Calls, d # c
    PROVE  call'[d] = call[d]
<1>1. call \in [Calls -> CallState]
    BY DEF ProcessorInv, ProcessorTypeOK
<1>2. ASSUME NEW outcome, Return(c, outcome)
      PROVE  call'[d] = call[d]
    BY <1>1, <1>2 DEF Return
<1>3. ASSUME AfterFailure(c)
      PROVE  call'[d] = call[d]
    BY <1>1, <1>2, <1>3 DEF AfterFailure
<1>4. CASE ClientNext(c)
    <2>1. CASE ReceiveAnswer(c)
        BY <1>2, <1>3, <2>1 DEF ReceiveAnswer
    <2>2. CASE DoOnce(c)
        BY <1>1, <2>2 DEF DoOnce
    <2>3. CASE TransportFails(c)
        BY <1>3, <2>3 DEF TransportFails
    <2>4. CASE BackoffOver(c)
        BY <1>1, <2>4 DEF BackoffOver
    <2>5. CASE BackoffCancelled(c)
        BY <1>2, <2>5 DEF BackoffCancelled
    <2>6. CASE BuildFails(c)
        BY <1>2, <2>6 DEF BuildFails
    <2> QED
        BY <1>4, <2>1, <2>2, <2>3, <2>4, <2>5, <2>6 DEF ClientNext
<1>5. CASE Cancel(c)
    BY <1>1, <1>5 DEF Cancel
<1>6. CASE \E job \in Called : Process(c, job)
    BY <1>1, <1>6 DEF Process
<1> QED
    BY <1>4, <1>5, <1>6

\* Calls keep to their time.
LEMMA TimesSoundStep ==
    ASSUME ProcessorInv, TimesSound, [ProcessorNext]_pvars
    PROVE  TimesSound'
<1>1. call \in [Calls -> CallState]
    BY DEF ProcessorInv, ProcessorTypeOK
<1> SUFFICES ASSUME NEW d \in Calls PROVE TimeSound(call'[d])
    BY DEF TimesSound, TimeSound, Waits
<1>2. TimeSound(call[d])
    BY DEF TimesSound
<1>3. CASE \E c \in Calls, job \in Called : Process(c, job)
    <2>1. PICK c \in Calls, job \in Called : Process(c, job)
        BY <1>3
    <2>2. CASE d = c
        <3>1. \/ /\ call'[c].pc = "send" /\ call'[c].attempt = 1
                 /\ call'[c].backoff = FirstBackoff /\ call'[c].elapsed = 0
                 /\ call'[c].timer = 0
              \/ call'[c].pc = "done" /\ call'[c].elapsed = 0 /\ call'[c].timer = 0
            BY <1>1, <2>1 DEF Process, NoCall
        <3>2. /\ 0 <= (1 - 1) * Timeout + Waits(FirstBackoff)
              /\ FirstBackoff = Doubled[1 - 1]
            BY ProcessorAssumption, DoubledIs DEF Waits
        <3> QED
            BY <2>2, <3>1, <3>2 DEF TimeSound
    <2>3. CASE d # c
        BY <1>2, <2>1, <2>3, OthersKept
    <2> QED
        BY <2>2, <2>3
<1>4. CASE \E c \in Calls : ClientNext(c) \/ Cancel(c)
    <2>1. PICK c \in Calls : ClientNext(c) \/ Cancel(c)
        BY <1>4
    <2>2. CASE d = c
        BY <1>2, <2>1, <2>2, ClientInTime
    <2>3. CASE d # c
        BY <1>2, <2>1, <2>3, OthersKept
    <2> QED
        BY <2>2, <2>3
<1>5. CASE Tick
    <2> DEFINE s == call[d]
               left == s.timer - 1
               gone == s.elapsed + 1
    <2>1. CASE s.timer = 0
        <3>1. call'[d] = s
            BY <2>1, <1>5 DEF Tick
        <3> QED
            BY <1>2, <3>1
    <2>2. CASE s.timer # 0
        <3>1. call'[d] = [s EXCEPT !.timer = left, !.elapsed = gone]
            BY <2>2, <1>5 DEF Tick
        <3>2. /\ s.elapsed \in Nat /\ s.timer \in Nat /\ s.backoff \in Nat
              /\ gone + left = s.elapsed + s.timer
            BY <1>1 DEF CallState
        <3> HIDE DEF left, gone
        <3>3. /\ call'[d].pc = s.pc /\ call'[d].attempt = s.attempt
              /\ call'[d].backoff = s.backoff /\ call'[d].elapsed = gone
              /\ call'[d].timer = left
            BY <1>1, <3>1 DEF CallState
        <3>4. s.pc \in {"wait", "backoff"}
            BY <1>1, <1>2, <2>2 DEF TimeSound, CallState
        <3> QED
            BY <1>2, <3>2, <3>3, <3>4 DEF TimeSound
    <2> QED
        BY <2>1, <2>2
<1>6. CASE (\E h \in handlers : HandlerNext(h)) \/ Restart \/ UNCHANGED pvars
    <2>1. call' = call
        BY <1>6 DEF HandlerNext, Malformed, Cached, Download, DownloadFails, Finish,
                    TooManyRequests, Restart, pvars
    <2> QED
        BY <1>2, <2>1
<1> QED
    BY <1>3, <1>4, <1>5, <1>6 DEF ProcessorNext

\* A call that keeps to its time is within the total.
LEMMA WithinTotal ==
    ASSUME ProcessorInv, TimesSound
    PROVE  CallTimeBounded
<1> SUFFICES ASSUME NEW c \in Calls
             PROVE  call[c].elapsed <= MaxRetries * Timeout + BackoffTotal
    BY DEF CallTimeBounded
<1> DEFINE s == call[c]
           M == MaxRetries - 1
<1>1. /\ s \in CallState /\ s.attempt \in 0 .. MaxRetries
      /\ s.elapsed \in Nat /\ s.timer \in Nat /\ s.backoff \in Nat
      /\ CallSound(s) /\ TimeSound(s)
    BY DEF ProcessorInv, ProcessorTypeOK, CallsSound, CallState, TimesSound
<1>2. /\ M \in Nat /\ MaxRetries \in Nat /\ Timeout \in Nat /\ FirstBackoff \in Nat
      /\ MaxRetries * Timeout \in Nat
    BY ProcessorAssumption
<1>3. ASSUME NEW a \in Int, a <= MaxRetries
      PROVE  a * Timeout \in Int /\ a * Timeout <= MaxRetries * Timeout
    <2>1. MaxRetries * Timeout - a * Timeout = (MaxRetries - a) * Timeout
        BY <1>2
    <2>2. MaxRetries - a \in Nat
        BY <1>2, <1>3
    <2>3. (MaxRetries - a) * Timeout >= 0
        BY <1>2, <2>2
    <2> QED
        BY <1>2, <2>1, <2>3
<1>4. ASSUME NEW n \in Nat, n <= M
      PROVE  Waits(Doubled[n]) \in Int /\ Waits(Doubled[n]) <= BackoffTotal
    <2>1. Doubled[n] \in Nat /\ Doubled[M] \in Nat /\ Doubled[n] <= Doubled[M]
        BY <1>2, <1>4, DoubledIs, DoubledGrows
    <2> QED
        BY <1>2, <2>1 DEF Waits, BackoffTotal
<1>5. CASE s.pc \in {"idle", "done"}
    <2>1. s.elapsed = 0
        BY <1>1, <1>5 DEF TimeSound
    <2>2. 0 <= M /\ Waits(Doubled[0]) = 0
        BY <1>2, DoubledIs DEF Waits
    <2>3. BackoffTotal >= 0 /\ BackoffTotal \in Int
        <3>1. Doubled[M] \in Nat
            BY <1>2, DoubledIs
        <3> QED
            BY <1>2, <1>4, <2>2, <3>1 DEF BackoffTotal
    <2> QED
        BY <1>2, <2>1, <2>3
<1>6. ASSUME s.pc \notin {"idle", "done"}
      PROVE  /\ s.attempt - 1 \in Nat /\ s.attempt - 1 <= M
             /\ s.backoff = Doubled[s.attempt - 1]
             /\ BackoffTotal \in Int
    <2>1. Doubled[M] \in Nat
        BY <1>2, DoubledIs
    <2> QED
        BY <1>1, <1>2, <1>6, <2>1 DEF CallSound, TimeSound, BackoffTotal
<1>7. CASE s.pc = "send"
    <2>1. s.elapsed <= (s.attempt - 1) * Timeout + Waits(s.backoff)
        BY <1>1, <1>7 DEF TimeSound
    <2>2. s.attempt - 1 \in Int /\ s.attempt - 1 <= MaxRetries
        BY <1>1, <1>2
    <2> DEFINE spent == (s.attempt - 1) * Timeout
               w     == Waits(s.backoff)
    <2>3. spent \in Int /\ spent <= MaxRetries * Timeout
        BY <1>3, <2>2
    <2>4. w \in Int /\ w <= BackoffTotal /\ BackoffTotal \in Int
        BY <1>4, <1>6, <1>7
    <2> HIDE DEF spent, w
    <2>5. s.elapsed <= spent + w
        BY <2>1 DEF spent, w
    <2> QED
        BY <1>1, <1>2, <2>3, <2>4, <2>5
<1>8. CASE s.pc = "wait"
    <2>1. s.elapsed + s.timer <= s.attempt * Timeout + Waits(s.backoff)
        BY <1>1, <1>8 DEF TimeSound
    <2>2. s.attempt \in Int /\ s.attempt <= MaxRetries
        BY <1>1, <1>2
    <2> QED
        BY <1>1, <1>2, <1>3, <1>4, <1>6, <1>8, <2>1, <2>2
<1>9. CASE s.pc = "backoff"
    <2>1. s.elapsed + s.timer <= s.attempt * Timeout + Waits(2 * s.backoff)
        BY <1>1, <1>9 DEF TimeSound
    <2>2. /\ s.attempt \in Int /\ s.attempt <= MaxRetries
          /\ s.attempt \in Nat /\ s.attempt <= M /\ (s.attempt - 1) + 1 = s.attempt
        BY <1>1, <1>2, <1>9 DEF CallSound
    <2>3. 2 * s.backoff = Doubled[s.attempt]
        BY <1>6, <1>9, <2>2, DoubledIs
    <2> QED
        BY <1>1, <1>2, <1>3, <1>4, <1>6, <1>9, <2>1, <2>2, <2>3
<1> QED
    BY <1>1, <1>5, <1>7, <1>8, <1>9 DEF CallState

\* No call of HTTPClient.Process takes longer than its timeouts and the longest
\* jittered backoffs between them add up to, for any number of attempts.
THEOREM CallsInTime == ProcessorSpec => []CallTimeBounded
<1>1. ProcessorInit => TimesSound
    BY DEF ProcessorInit, TimesSound, TimeSound, NoCall
<1>2. ProcessorInv /\ TimesSound /\ [ProcessorNext]_pvars => TimesSound'
    BY TimesSoundStep
<1>3. ProcessorInv /\ TimesSound => CallTimeBounded
    BY WithinTotal
<1> QED
    BY <1>1, <1>2, <1>3, InvSound, PTL DEF ProcessorSpec
=============================================================================
