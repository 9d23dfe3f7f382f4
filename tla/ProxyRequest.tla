---------------------------- MODULE ProxyRequest ----------------------------
(***************************************************************************)
(* One proxied request from its arrival to its last byte                   *)
(* (server/utils/proxy.ts): a worker of the pool, the request body, an     *)
(* account slot, the upstream call, the response that holds both until it  *)
(* ends, the answer and the call log.  "models" requests (proxyModels)     *)
(* take no worker and are not logged.                                      *)
(*                                                                         *)
(* The pool is a number of workers and a line here, which may be full, and *)
(* the slots of the accounts are one number: ProxyWorkerPool and           *)
(* AccountSlots say how they are kept.  Each action is the stretch between *)
(* two awaits.                                                             *)
(***************************************************************************)
EXTENDS Integers, Sequences, SequencesExt, FiniteSets

CONSTANTS
    Connections, \* connections; each may carry one request after another
    Workers,     \* workers of the pool
    Slots        \* slots of all eligible accounts together

VARIABLES
    pc,       \* where the handler of a request stands
    kind,     \* "chat", "stream" (chat with stream: true) or "models"
    fired,    \* which of its two signals have fired: "client", "timeout"
    queue,    \* requests waiting for a worker
    spare,    \* number of idle workers
    free,     \* number of free slots
    hasWorker, \* does the request hold a worker?
    hasSlot,  \* does it hold a slot?
    error,    \* the error its handler failed with
    answer,   \* status of the upstream's answer, 0 before it
    status,   \* logData.statusCode, for "models" the status answered
    logs,     \* rows of call_logs written for it
    loggers   \* continuations of its stream that have yet to call logOnce()

requestVars == <<pc, kind, fired, queue, spare, free, hasWorker, hasSlot, error,
                 answer, status, logs, loggers>>
held == <<queue, spare, hasWorker>>
kept == <<kind, answer>>

Kinds == {"chat", "stream", "models"}
Errors == {"none", "aborted", "queueTimeout", "saturated", "other"}

\* 200: ok; 404: any refusal.  What a refusal does to the account, which is
\* awaited before the response, is in AccountLifecycle.
Answers == {200, 404}
Local == {400, 499, 500, 502, 503, 504}

\* The response is on its way to the client.
Open == {"streaming", "sending", "closing"}
PCs == Open \cup {"idle", "queued", "granted", "body", "slot", "fetch",
                  "settle", "draining", "failed", "done"}
Over(r) == pc[r] \in {"idle", "done"}

\* A new request, which the pool rejects at once with error e unless "none".
Fresh(r, k, e) ==
    /\ kind' = [kind EXCEPT ![r] = k]
    /\ fired' = [fired EXCEPT ![r] = {}]
    /\ error' = [error EXCEPT ![r] = e]
    /\ answer' = [answer EXCEPT ![r] = 0]
    /\ status' = [status EXCEPT ![r] = 0]
    /\ logs' = [logs EXCEPT ![r] = 0]
    /\ loggers' = [loggers EXCEPT ![r] = {}]

RequestInit ==
    /\ pc = [r \in Connections |-> "idle"]
    /\ kind = [r \in Connections |-> "chat"]
    /\ fired = [r \in Connections |-> {}]
    /\ queue = <<>>
    /\ spare = Workers
    /\ free = Slots
    /\ hasWorker = [r \in Connections |-> FALSE]
    /\ hasSlot = [r \in Connections |-> FALSE]
    /\ error = [r \in Connections |-> "none"]
    /\ answer = [r \in Connections |-> 0]
    /\ status = [r \in Connections |-> 0]
    /\ logs = [r \in Connections |-> 0]
    /\ loggers = [r \in Connections |-> {}]

-----------------------------------------------------------------------------
(* Giving back.  The closures that give back carry a flag (`released`), so *)
(* the end of a stream, its cancellation and the abort of its signal may   *)
(* all call them.                                                          *)

\* release() of the pool, then r goes to `next`.
WorkerBack(r, next) ==
    IF ~hasWorker[r]
    THEN pc' = [pc EXCEPT ![r] = next] /\ UNCHANGED held
    ELSE IF queue = <<>>
    THEN /\ pc' = [pc EXCEPT ![r] = next]
         /\ hasWorker' = [hasWorker EXCEPT ![r] = FALSE]
         /\ spare' = spare + 1
         /\ UNCHANGED queue
    ELSE /\ pc' = [pc EXCEPT ![r] = next, ![Head(queue)] = "granted"]
         /\ hasWorker' = [hasWorker EXCEPT ![r] = FALSE, ![Head(queue)] = TRUE]
         /\ queue' = Tail(queue)
         /\ UNCHANGED spare

\* Faulty variant: every caller gives the slot back.
SlotBackUnguarded(r) ==
    /\ hasSlot' = [hasSlot EXCEPT ![r] = FALSE]
    /\ free' = free + 1

SlotBack(r) ==
    /\ hasSlot' = [hasSlot EXCEPT ![r] = FALSE]
    /\ free' = IF hasSlot[r] THEN free + 1 ELSE free

\* Faulty variant: logOnce() without its flag.
LogAlways(r, code) ==
    /\ logs' = [logs EXCEPT ![r] = @ + 1]
    /\ status' = [status EXCEPT ![r] = code]

\* logOnce(), logCallCompletion().
Log(r, code) ==
    /\ logs' = [logs EXCEPT ![r] = IF @ = 0 THEN 1 ELSE @]
    /\ status' = [status EXCEPT ![r] = code]

\* The abort of a response under way: slot, then worker, and the stream's
\* cancel() logs when the upstream has acknowledged.  A read that is pending
\* at that moment ends too, and logs as well.
Cut(r) ==
    /\ SlotBack(r)
    /\ IF pc[r] = "streaming"
       THEN /\ WorkerBack(r, "draining")
            /\ loggers' \in {[loggers EXCEPT ![r] = l] :
                               l \in {{"cancel"}, {"cancel", "pull"}}}
       ELSE WorkerBack(r, "done") /\ UNCHANGED loggers

-----------------------------------------------------------------------------
(* The pool.                                                               *)

ArriveModels(r) ==
    /\ pc[r] = "idle"
    /\ Fresh(r, "models", "none")
    /\ pc' = [pc EXCEPT ![r] = "slot"]
    /\ UNCHANGED <<held, free, hasSlot>>

ArriveChat(r) ==
    /\ pc[r] = "idle"
    /\ \E k \in {"chat", "stream"} :
          \/ /\ spare > 0
             /\ Fresh(r, k, "none")
             /\ spare' = spare - 1
             /\ hasWorker' = [hasWorker EXCEPT ![r] = TRUE]
             /\ pc' = [pc EXCEPT ![r] = "granted"]
             /\ UNCHANGED queue
          \/ /\ spare = 0
             /\ Fresh(r, k, "none")
             /\ queue' = Append(queue, r)
             /\ pc' = [pc EXCEPT ![r] = "queued"]
             /\ UNCHANGED <<spare, hasWorker>>
          \/ /\ spare = 0
             /\ Fresh(r, k, "saturated")
             /\ pc' = [pc EXCEPT ![r] = "failed"]
             /\ UNCHANGED held
    /\ UNCHANGED <<free, hasSlot>>

\* removeQueued(): r leaves the line, in which it stands once.
Leave(r) ==
    \E k \in DOMAIN queue : queue[k] = r /\ queue' = RemoveAt(queue, k)

WaitTimesOut(r) ==
    /\ pc[r] = "queued"
    /\ pc' = [pc EXCEPT ![r] = "failed"]
    /\ error' = [error EXCEPT ![r] = "queueTimeout"]
    /\ Leave(r)
    /\ UNCHANGED <<kept, fired, spare, free, hasWorker, hasSlot, status, logs, loggers>>

\* run() after acquire().
Continue(r) ==
    /\ pc[r] = "granted"
    /\ IF fired[r] # {}
       THEN WorkerBack(r, "failed") /\ error' = [error EXCEPT ![r] = "aborted"]
       ELSE pc' = [pc EXCEPT ![r] = "body"] /\ UNCHANGED <<held, error>>
    /\ UNCHANGED <<kept, fired, free, hasSlot, status, logs, loggers>>

-----------------------------------------------------------------------------
(* The body, the slot, the call.                                           *)

\* An answer made here, which nothing logs: logData is filled in and the
\* handler returns.
Refuse(r, code) ==
    /\ status' = [status EXCEPT ![r] = code]
    /\ WorkerBack(r, "done")
    /\ UNCHANGED <<kept, fired, free, hasSlot, error, logs, loggers>>

\* No body, or tool definitions that normalizeOpenAIChatRequestBody rejects.
RefuseBody(r) == pc[r] = "body" /\ Refuse(r, 400)

AcceptBody(r) ==
    /\ pc[r] = "body"
    /\ pc' = [pc EXCEPT ![r] = "slot"]
    /\ UNCHANGED <<kept, held, fired, free, hasSlot, error, status, logs, loggers>>

\* No candidate account.
RefuseEmptyPool(r) == pc[r] = "slot" /\ Refuse(r, 503)

TakeSlot(r) ==
    /\ pc[r] = "slot" /\ free > 0
    /\ free' = free - 1
    /\ hasSlot' = [hasSlot EXCEPT ![r] = TRUE]
    /\ pc' = [pc EXCEPT ![r] = "fetch"]
    /\ UNCHANGED <<kept, held, fired, error, status, logs, loggers>>

\* The catch around the call gives the slot back, then the pool the worker.
Throw(r) ==
    /\ error' = [error EXCEPT ![r] = "other"]
    /\ SlotBack(r)
    /\ WorkerBack(r, "failed")

\* The body cannot be read, the database fails, the transport cannot be
\* built or the call fails.
StepFails(r) ==
    /\ pc[r] \in {"body", "slot", "fetch"}
    /\ Throw(r)
    /\ UNCHANGED <<kept, fired, status, logs, loggers>>

\* The wait for a slot or the call ends with the reason of the signal, which
\* is a DOMException and not the pool's ProxyRequestAbortedError.
StepAborts(r) ==
    /\ pc[r] \in {"slot", "fetch"} /\ fired[r] # {}
    /\ Throw(r)
    /\ UNCHANGED <<kept, fired, status, logs, loggers>>

UpstreamAnswers(r) ==
    /\ pc[r] = "fetch"
    /\ \E a \in Answers : answer' = [answer EXCEPT ![r] = a]
    /\ status' = [status EXCEPT ![r] = answer'[r]]
    /\ pc' = [pc EXCEPT ![r] = "settle"]
    /\ UNCHANGED <<held, kind, fired, free, hasSlot, error, logs, loggers>>

\* Faulty variant: nobody looks whether the signal has fired already.
Unnoticed(r) == TRUE

\* The listener would come too late.
NotYetAborted(r) == fired[r] = {}

\* The account has been dealt with and a whole response read.  The response
\* is wrapped; a signal that has fired meanwhile is noticed at once; one
\* without a body ends at once.
Respond(r) ==
    /\ pc[r] = "settle"
    /\ LET stream == kind[r] = "stream" /\ answer[r] = 200
       IN  /\ IF kind[r] = "models" \/ stream
              THEN UNCHANGED <<logs, status>>
              ELSE Log(r, answer[r])
           /\ \/ /\ NotYetAborted(r)
                 /\ pc' = [pc EXCEPT ![r] = IF stream THEN "streaming" ELSE "sending"]
                 /\ UNCHANGED <<held, free, hasSlot, loggers>>
              \/ /\ ~NotYetAborted(r) \/ ~stream
                 /\ SlotBack(r)
                 /\ WorkerBack(r, IF stream THEN "draining" ELSE "done")
                 /\ loggers' = [loggers EXCEPT ![r] = IF stream THEN {"cancel"} ELSE {}]
    /\ UNCHANGED <<kind, fired, error, answer>>

-----------------------------------------------------------------------------
(* The response.                                                           *)

\* The upstream's last chunk, or its failure.
BodyEnds(r) ==
    /\ pc[r] \in {"streaming", "sending"}
    /\ SlotBack(r)
    /\ IF pc[r] = "streaming" THEN Log(r, answer[r]) ELSE UNCHANGED <<logs, status>>
    /\ pc' = [pc EXCEPT ![r] = "closing"]
    /\ UNCHANGED <<kept, held, fired, error, loggers>>

\* The pool's wrapper reads the end.
WrapperEnds(r) ==
    /\ pc[r] = "closing"
    /\ WorkerBack(r, "done")
    /\ UNCHANGED <<kept, fired, free, hasSlot, error, status, logs, loggers>>

\* cancel() from below: nobody reads the response any more.
CancelBody(r) ==
    /\ pc[r] \in Open
    /\ Cut(r)
    /\ UNCHANGED <<kept, fired, error, status, logs>>

\* A continuation of a stream that was cut.
LogOnce(r) ==
    /\ pc[r] = "draining"
    /\ \E l \in loggers[r] :
          /\ loggers' = [loggers EXCEPT ![r] = @ \ {l}]
          /\ pc' = [pc EXCEPT ![r] = IF loggers[r] = {l} THEN "done" ELSE @]
    /\ Log(r, answer[r])
    /\ UNCHANGED <<kept, held, fired, free, hasSlot, error>>

\* The client disconnects or the upstream timeout fires.  The combined signal
\* aborts with the first of the two, and calls its listeners once.
Fire(r, s) ==
    /\ ~Over(r) /\ s \notin fired[r]
    /\ fired' = [fired EXCEPT ![r] = @ \cup {s}]
    /\ \/ /\ fired[r] = {} /\ pc[r] = "queued"
          /\ pc' = [pc EXCEPT ![r] = "failed"]
          /\ error' = [error EXCEPT ![r] = "aborted"]
          /\ Leave(r)
          /\ UNCHANGED <<spare, free, hasWorker, hasSlot, loggers>>
       \/ /\ fired[r] = {} /\ pc[r] \in Open
          /\ Cut(r)
          /\ UNCHANGED error
       \/ /\ fired[r] # {} \/ pc[r] \notin Open \cup {"queued"}
          /\ UNCHANGED <<pc, held, free, hasSlot, error, loggers>>
    /\ UNCHANGED <<kept, status, logs>>

ClientGone(r) == Fire(r, "client")
TimeoutFires(r) == Fire(r, "timeout")

-----------------------------------------------------------------------------
(* The answer to a failure.                                                *)

\* Faulty variant: a call that timed out is taken for a failure.
TimeoutForgotten(r) ==
    IF error[r] = "aborted" THEN 499
    ELSE IF error[r] \in {"queueTimeout", "saturated"} THEN 503 ELSE 500

ChatStatus(r) ==
    IF error[r] = "aborted" THEN 499
    ELSE IF "timeout" \in fired[r] THEN 504
    ELSE IF error[r] \in {"queueTimeout", "saturated"} THEN 503 ELSE 500

ModelsStatus(r) ==
    IF "client" \in fired[r] THEN 499
    ELSE IF "timeout" \in fired[r] THEN 504 ELSE 502

AnswerFailure(r) ==
    /\ pc[r] = "failed"
    /\ IF kind[r] = "models"
       THEN status' = [status EXCEPT ![r] = ModelsStatus(r)] /\ UNCHANGED logs
       ELSE Log(r, ChatStatus(r))
    /\ pc' = [pc EXCEPT ![r] = "done"]
    /\ UNCHANGED <<kept, held, fired, free, hasSlot, error, loggers>>

\* The connection is ready for another request.
Rest(r) ==
    /\ pc[r] = "done"
    /\ pc' = [pc EXCEPT ![r] = "idle"]
    /\ Fresh(r, "chat", "none")
    /\ UNCHANGED <<held, free, hasSlot>>

-----------------------------------------------------------------------------
\* What the handler does by itself.  Neither the upstream, the client's
\* reading nor a free slot is among it.
Handler(r) ==
    \/ Continue(r) \/ RefuseBody(r) \/ AcceptBody(r) \/ StepAborts(r)
    \/ Respond(r) \/ WrapperEnds(r) \/ LogOnce(r) \/ AnswerFailure(r)

Outside(r) ==
    \/ ArriveModels(r) \/ ArriveChat(r) \/ WaitTimesOut(r) \/ Rest(r)
    \/ RefuseEmptyPool(r) \/ TakeSlot(r) \/ StepFails(r) \/ UpstreamAnswers(r)
    \/ BodyEnds(r) \/ CancelBody(r) \/ ClientGone(r)

RequestNext == \E r \in Connections : Handler(r) \/ Outside(r) \/ TimeoutFires(r)

\* Promises continue, statements and request bodies end, and the timer of
\* AbortSignal.timeout(PROXY_UPSTREAM_TIMEOUT_MS) fires.
RequestFairness ==
    \A r \in Connections :
        WF_requestVars(Handler(r)) /\ WF_requestVars(TimeoutFires(r))

RequestSpec == RequestInit /\ [][RequestNext]_requestVars /\ RequestFairness

-----------------------------------------------------------------------------
\* Every variable keeps its type.
RequestTypeOK ==
    /\ pc \in [Connections -> PCs]
    /\ kind \in [Connections -> Kinds]
    /\ fired \in [Connections -> SUBSET {"client", "timeout"}]
    /\ queue \in Seq(Connections)
    /\ spare \in 0..Workers
    /\ free \in 0..Slots
    /\ hasWorker \in [Connections -> BOOLEAN]
    /\ hasSlot \in [Connections -> BOOLEAN]
    /\ error \in [Connections -> Errors]
    /\ answer \in [Connections -> Answers \cup {0}]
    /\ status \in [Connections -> Answers \cup Local \cup {0}]
    /\ logs \in [Connections -> 0..1]
    /\ loggers \in [Connections -> SUBSET {"cancel", "pull"}]

\* Worker and slot come back exactly once, whichever of the stream's end, its
\* cancellation, the abort and the error paths come together: nothing is lost,
\* nothing comes back twice, and a request that is over holds neither.
GivenBackOnce ==
    /\ spare + Cardinality({r \in Connections : hasWorker[r]}) = Workers
    /\ free + Cardinality({r \in Connections : hasSlot[r]}) = Slots
    /\ \A r \in Connections : Over(r) => ~hasWorker[r] /\ ~hasSlot[r]
    /\ queue # <<>> => spare = 0

\* A chat completion leaves at most one row in call_logs, and exactly one
\* unless it was answered here without a failure.
LoggedOnce ==
    \A r \in Connections :
        /\ logs[r] <= 1
        /\ pc[r] = "done" /\ kind[r] # "models" =>
              logs[r] = 1 \/ (error[r] = "none" /\ answer[r] = 0)

\* What a request is answered, and its row says, is what happened: an answer
\* of the upstream is passed on, 499 and 504 stand for a signal that fired,
\* and a timeout is not blamed on the proxy.
AnswerNamesItsCause ==
    \A r \in Connections :
        pc[r] = "done" =>
            /\ answer[r] # 0 => status[r] = answer[r]
            /\ status[r] = 499 => fired[r] # {}
            /\ status[r] = 504 => "timeout" \in fired[r]
            /\ status[r] \in {500, 502} => "timeout" \notin fired[r]

\* Every request ends, though the upstream may never answer, no slot ever be
\* free and the client neither read nor disconnect.
CallEnds == \A r \in Connections : ~Over(r) ~> Over(r)

\* README.md:23 of the repository: the call log records every proxied request.
EveryCallIsLogged ==
    \A r \in Connections : pc[r] = "done" /\ kind[r] # "models" => logs[r] = 1

=============================================================================
