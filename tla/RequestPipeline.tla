---------------------------- MODULE RequestPipeline ----------------------------
(***************************************************************************)
(* The life of a request in the proxy: handle_proxy_execution of server.py *)
(* with the two routes that call it, the forwarder's part in it, and what  *)
(* it does to the budget limiter, the metrics, the cache, the audit ledger *)
(* and the list of recent events.                                          *)
(*                                                                         *)
(* A handler runs from await to await, and any number of handlers can wait *)
(* at the same time: for the body, for the upstream, for its stream, for   *)
(* the webhooks, for the ledger.  Each action is the code between two      *)
(* awaits.  What authentication, policy, budget, DLP guard, vault and      *)
(* circuit breaker decide is left open, they have modules of their own.    *)
(*                                                                         *)
(* A call is what makes up a cache key: profile, method, path, query and   *)
(* processed body.  The upstream's answer to it changes with time, its     *)
(* version says which one it is.                                           *)
(***************************************************************************)
EXTENDS Naturals, FiniteSets

CONSTANTS
    Request,        \* the handlers
    Call,
    EventLimit,     \* the length at which recent_events is trimmed, 100
    None,
    MaxRequests,    \* bound of the model: requests there ever are
    MaxVersion      \* bound of the model: changes of an upstream's answer

\* ok: status 200; text: a text or JSON answer; whole: the handler has read it to its end.
Answer == [version : Nat, ok : BOOLEAN, text : BOOLEAN, whole : BOOLEAN]

ASSUME PipelineAssumption ==
    /\ IsFiniteSet(Request)
    /\ EventLimit \in Nat
    /\ None \notin Answer
    /\ None \notin Call

VARIABLES
    pc,         \* what each handler waits for
    call,       \* its call
    answer,     \* what its upstream has answered
    outcome,    \* how its last request ended
    cache,      \* per call its cached answer
    hits,       \* the cache's counter
    spent,      \* charges recorded by the budget limiter
    counted,    \* requests recorded by the metrics
    recorded,   \* records of the audit ledger
    events,     \* length of recent_events
    unclosed,   \* upstream responses whose stream is not closed
    version,    \* per call the upstream's present answer
    arrived,    \* ghost: requests so far
    charged,    \* ghost: charges so far, those before a restart included
    refused,    \* ghost: refusals listed in recent_events
    abandoned,  \* ghost: streams nobody will ever read
    latest,     \* ghost: per call the latest version that was delivered
    since,      \* ghost: per handler, that version when its request arrived
    raced       \* ghost: calls that were fetched by two requests at a time

memory == <<pc, call, answer, outcome, cache, hits, spent, counted, events, unclosed>>
ghosts == <<arrived, charged, refused, abandoned, latest, since, raced>>
vars == <<memory, recorded, version, ghosts>>

meters == <<hits, spent, counted, recorded, charged>>
streams == <<unclosed, abandoned>>
listed == <<events, refused>>
history == <<latest, since, raced>>

Fetching(k) == {r \in Request : pc[r] \in {"forwarding", "collecting"} /\ call[r] = k}

\* Handler r waits at p next.
Goto(r, p) ==
    /\ pc' = [pc EXCEPT ![r] = p]
    /\ UNCHANGED <<call, outcome>>

\* Handler r is done with its request.
Finish(r, how) ==
    /\ pc' = [pc EXCEPT ![r] = "idle"]
    /\ call' = [call EXCEPT ![r] = None]
    /\ answer' = [answer EXCEPT ![r] = None]
    /\ outcome' = [outcome EXCEPT ![r] = how]

\* The client has the given version of the answer to k.
Deliver(k, v) == latest' = [latest EXCEPT ![k] = IF v > @ THEN v ELSE @]

\* recent_events.append of a refusal.
ListRefusal ==
    /\ events' = events + 1
    /\ refused' = refused + 1

Init ==
    /\ pc = [r \in Request |-> "idle"]
    /\ call = [r \in Request |-> None]
    /\ answer = [r \in Request |-> None]
    /\ outcome = [r \in Request |-> "none"]
    /\ cache = [k \in Call |-> None]
    /\ hits = 0 /\ spent = 0 /\ counted = 0 /\ recorded = 0 /\ events = 0 /\ unclosed = 0
    /\ version = [k \in Call |-> 0]
    /\ arrived = 0 /\ charged = 0 /\ refused = 0 /\ abandoned = 0
    /\ latest = [k \in Call |-> 0]
    /\ since = [r \in Request |-> 0]
    /\ raced = {}

-----------------------------------------------------------------------------
(* A request arrives. *)

Arrives(r) ==
    /\ pc[r] = "idle"
    /\ arrived < MaxRequests
    /\ arrived' = arrived + 1

\* A reserved path, or a Host that belongs to no profile: 404.
Unrouted(r) ==
    /\ Arrives(r)
    /\ Finish(r, "refused")
    /\ UNCHANGED <<cache, meters, listed, streams, history, version>>

\* Its caller is not authenticated (401), not permitted (403) or too fast (429).
Refuse(r) ==
    /\ Arrives(r)
    /\ ListRefusal
    /\ Finish(r, "refused")
    /\ UNCHANGED <<cache, meters, streams, history, version>>

\* Its budget is spent (429); the webhooks are called before it is answered.
RefuseBudget(r) ==
    /\ Arrives(r)
    /\ ListRefusal
    /\ Goto(r, "notifying")
    /\ UNCHANGED <<answer, cache, meters, streams, history, version>>

\* notify_budget_exhausted returns, whatever the webhooks have answered.
Notified(r) ==
    /\ pc[r] = "notifying"
    /\ Finish(r, "refused")
    /\ UNCHANGED <<cache, meters, listed, streams, history, version, arrived>>

\* It passes, and its body is awaited.
Admit(r) ==
    /\ Arrives(r)
    /\ \E k \in Call :
          /\ call' = [call EXCEPT ![r] = k]
          /\ since' = [since EXCEPT ![r] = latest[k]]
    /\ pc' = [pc EXCEPT ![r] = "body"]
    /\ outcome' = [outcome EXCEPT ![r] = "none"]
    /\ UNCHANGED <<answer, cache, meters, listed, streams, latest, raced, version>>

-----------------------------------------------------------------------------
(* Its body is there, or never will be. *)

Disconnect(r) ==
    /\ pc[r] = "body"
    /\ Finish(r, "failed")
    /\ UNCHANGED <<cache, meters, listed, streams, history, version, arrived>>

\* The DLP guard blocks it: 422.
Block(r) ==
    /\ pc[r] = "body"
    /\ ListRefusal
    /\ Finish(r, "refused")
    /\ UNCHANGED <<cache, meters, streams, history, version, arrived>>

\* Mutant: a hit is charged like an answer of the upstream.
HitCharged(r) ==
    /\ pc[r] = "body"
    /\ cache[call[r]] # None
    /\ hits' = hits + 1
    /\ counted' = counted + 1
    /\ spent' = spent + 1
    /\ charged' = charged + 1
    /\ Deliver(call[r], cache[call[r]].version)
    /\ Finish(r, "hit")
    /\ UNCHANGED <<cache, recorded, listed, streams, since, raced, version, arrived>>

\* The cache has an answer.
Hit(r) ==
    /\ pc[r] = "body"
    /\ cache[call[r]] # None
    /\ hits' = hits + 1
    /\ counted' = counted + 1
    /\ Deliver(call[r], cache[call[r]].version)
    /\ Finish(r, "hit")
    /\ UNCHANGED <<cache, spent, recorded, charged, listed, streams, since, raced, version, arrived>>

\* It has none: the forwarder reads the vault, asks the breaker and sends.
Miss(r) ==
    /\ pc[r] = "body"
    /\ cache[call[r]] = None
    /\ Goto(r, "forwarding")
    /\ raced' = IF Fetching(call[r]) = {} THEN raced ELSE raced \cup {call[r]}
    /\ UNCHANGED <<answer, cache, meters, listed, streams, latest, since, version, arrived>>

-----------------------------------------------------------------------------
(* The forwarder returns. *)

\* No profile (404), no secret (500), an open circuit (503), no answer (502).
Unavailable(r) ==
    /\ pc[r] = "forwarding"
    /\ Finish(r, "failed")
    /\ UNCHANGED <<cache, meters, listed, streams, history, version, arrived>>

\* The upstream has sent its status and headers; the breaker has its outcome.
Responds(r, text) ==
    /\ pc[r] = "forwarding"
    /\ \E ok \in BOOLEAN :
          answer' = [answer EXCEPT ![r] =
                        [version |-> version[call[r]], ok |-> ok, text |-> text, whole |-> FALSE]]
    /\ unclosed' = unclosed + 1

\* record_spend and record_request.
Charge ==
    /\ spent' = spent + 1
    /\ counted' = counted + 1
    /\ charged' = charged + 1

\* Text and JSON are read to their end first.
RespondText(r) ==
    /\ Responds(r, TRUE)
    /\ Goto(r, "collecting")
    /\ UNCHANGED <<cache, meters, listed, abandoned, history, version, arrived>>

\* Anything else is charged and audited before its stream is touched.
RespondBinary(r) ==
    /\ Responds(r, FALSE)
    /\ Charge
    /\ Goto(r, "auditing")
    /\ UNCHANGED <<cache, hits, recorded, listed, abandoned, history, version, arrived>>

\* cache.set of answer a under the request's key, if its status is 200.
Fill(r, a) == cache' = IF a.ok THEN [cache EXCEPT ![call[r]] = a] ELSE cache

\* Mutant: what was read before the stream broke is cached like an answer.
BreakCaching(r) ==
    /\ pc[r] = "collecting"
    /\ unclosed' = unclosed - 1
    /\ Fill(r, answer[r])
    /\ Finish(r, "failed")
    /\ UNCHANGED <<meters, listed, abandoned, history, version, arrived>>

\* Mutant: the stream has no finally that closes it.
BreakLeaking(r) ==
    /\ pc[r] = "collecting"
    /\ Finish(r, "failed")
    /\ UNCHANGED <<cache, meters, listed, streams, history, version, arrived>>

\* The stream breaks or stops for longer than the read timeout: 500.  The timeout is
\* one of every read, a stream that goes on is read for ever.
Break(r) ==
    /\ pc[r] = "collecting"
    /\ unclosed' = unclosed - 1
    /\ Finish(r, "failed")
    /\ UNCHANGED <<cache, meters, listed, abandoned, history, version, arrived>>

\* The stream has ended: redact, charge, count, cache.  At 80% of the daily budget
\* the webhooks come next, else the ledger.
Collected(r) ==
    /\ pc[r] = "collecting"
    /\ unclosed' = unclosed - 1
    /\ LET a == [answer[r] EXCEPT !.whole = TRUE]
       IN  answer' = [answer EXCEPT ![r] = a] /\ Fill(r, a)
    /\ Charge
    /\ Goto(r, "auditing") \/ Goto(r, "warning")
    /\ UNCHANGED <<hits, recorded, listed, abandoned, history, version, arrived>>

\* Mutant: the warning is recorded like a request.
WarnedRecording(r) ==
    /\ pc[r] = "warning"
    /\ recorded' = recorded + 1
    /\ Goto(r, "auditing")
    /\ UNCHANGED <<answer, cache, hits, spent, counted, charged, listed, streams, history, version, arrived>>

\* notify_budget_warning returns, whatever the webhooks have answered.
Warned(r) ==
    /\ pc[r] = "warning"
    /\ Goto(r, "auditing")
    /\ UNCHANGED <<answer, cache, meters, listed, streams, history, version, arrived>>

-----------------------------------------------------------------------------
(* The ledger has the record, or log_request raises. *)

\* Mutant: nothing is trimmed.
TrimmedNever(n) == n

\* recent_events.pop(0), once.
Trimmed(n) == IF n > EventLimit THEN n - 1 ELSE n

\* Mutant: the answer is cached once more when it is sent.
AuditTextFilling(r) ==
    /\ pc[r] = "auditing"
    /\ answer[r].text
    /\ recorded' = recorded + 1
    /\ events' = Trimmed(events + 1)
    /\ Fill(r, answer[r])
    /\ Deliver(call[r], answer[r].version)
    /\ Finish(r, "answered")
    /\ UNCHANGED <<hits, spent, counted, charged, refused, streams, since, raced, version, arrived>>

\* A text answer is listed and sent.
AuditText(r) ==
    /\ pc[r] = "auditing"
    /\ answer[r].text
    /\ recorded' = recorded + 1
    /\ events' = Trimmed(events + 1)
    /\ Deliver(call[r], answer[r].version)
    /\ Finish(r, "answered")
    /\ UNCHANGED <<cache, hits, spent, counted, charged, refused, streams, since, raced, version, arrived>>

\* Mutant: the upstream's response is closed before it is streamed.
AuditBinaryClosing(r) ==
    /\ pc[r] = "auditing"
    /\ ~answer[r].text
    /\ recorded' = recorded + 1
    /\ unclosed' = unclosed - 1
    /\ Goto(r, "streaming")
    /\ UNCHANGED <<answer, cache, hits, spent, counted, charged, listed, abandoned, history, version, arrived>>

\* A binary one starts to stream; it is not listed.
AuditBinary(r) ==
    /\ pc[r] = "auditing"
    /\ ~answer[r].text
    /\ recorded' = recorded + 1
    /\ Goto(r, "streaming")
    /\ UNCHANGED <<answer, cache, hits, spent, counted, charged, listed, streams, history, version, arrived>>

\* The stream is through.
Streamed(r) ==
    /\ pc[r] = "streaming"
    /\ unclosed' = unclosed - 1
    /\ Deliver(call[r], answer[r].version)
    /\ Finish(r, "answered")
    /\ UNCHANGED <<cache, meters, listed, abandoned, since, raced, version, arrived>>

\* It breaks, or its client is gone: before the first chunk, nobody starts it.
StreamBreaks(r) ==
    /\ pc[r] = "streaming"
    /\ \/ unclosed' = unclosed - 1 /\ UNCHANGED abandoned
       \/ abandoned' = abandoned + 1 /\ UNCHANGED unclosed
    /\ Finish(r, "failed")
    /\ UNCHANGED <<cache, meters, listed, history, version, arrived>>

\* Mutant: the end of the handler is tried again, from the warning on.
AuditFailsRetrying(r) ==
    /\ pc[r] = "auditing"
    /\ Goto(r, "warning")
    /\ UNCHANGED <<answer, cache, meters, listed, streams, history, version, arrived>>

\* The caller gets a 500 for a call that is charged; the stream of a binary answer has
\* not been started, and so its end, which closes the upstream's response, never comes.
AuditFails(r) ==
    /\ pc[r] = "auditing"
    /\ abandoned' = IF answer[r].text THEN abandoned ELSE abandoned + 1
    /\ Finish(r, "failed")
    /\ UNCHANGED <<cache, meters, listed, unclosed, history, version, arrived>>

-----------------------------------------------------------------------------
(* What happens around the requests. *)

\* An answer outlives its time or is the least recently used.
Evict ==
    /\ \E k \in Call : cache[k] # None /\ cache' = [cache EXCEPT ![k] = None]
    /\ UNCHANGED <<pc, call, answer, outcome, meters, listed, streams, history, version, arrived>>

\* The upstream would answer k differently now.
Change ==
    /\ \E k \in Call : version[k] < MaxVersion /\ version' = [version EXCEPT ![k] = @ + 1]
    /\ UNCHANGED <<memory, recorded, ghosts>>

\* The process ends and starts again: only the ledger is on disk.
Restart ==
    /\ pc' = [r \in Request |-> "idle"]
    /\ call' = [r \in Request |-> None]
    /\ answer' = [r \in Request |-> None]
    /\ outcome' = [r \in Request |-> "none"]
    /\ cache' = [k \in Call |-> None]
    /\ hits' = 0 /\ spent' = 0 /\ counted' = 0 /\ events' = 0 /\ unclosed' = 0
    /\ refused' = 0 /\ abandoned' = 0
    /\ UNCHANGED <<recorded, version, arrived, charged, history>>

Next ==
    \/ \E r \in Request :
          \/ Unrouted(r) \/ Refuse(r) \/ RefuseBudget(r) \/ Notified(r) \/ Admit(r)
          \/ Disconnect(r) \/ Block(r) \/ Hit(r) \/ Miss(r)
          \/ Unavailable(r) \/ RespondText(r) \/ RespondBinary(r)
          \/ Break(r) \/ Collected(r) \/ Warned(r)
          \/ AuditText(r) \/ AuditBinary(r) \/ AuditFails(r)
          \/ Streamed(r) \/ StreamBreaks(r)
    \/ Evict
    \/ Change
    \/ Restart

Spec == Init /\ [][Next]_vars

(* An upstream sends the head of its answer or falls silent, and then the  *)
(* read timeout ends the wait for it; the ledger's database has a timeout  *)
(* too.  Nothing is assumed about the rest: a client may never send the    *)
(* body it promised nor read the stream it asked for, and the body of an   *)
(* upstream, as the answer of a webhook, may come in pieces for ever, the  *)
(* timeouts being for one piece each.                                      *)
FairSpec ==
    /\ Spec
    /\ \A r \in Request :
          /\ WF_vars(Unavailable(r) \/ RespondText(r) \/ RespondBinary(r))
          /\ WF_vars(AuditText(r) \/ AuditBinary(r) \/ AuditFails(r))

-----------------------------------------------------------------------------
Waits == {"idle", "notifying", "body", "forwarding", "collecting", "warning", "auditing", "streaming"}

(* Types, and which local variables a handler has at each await. *)
TypeOK ==
    /\ pc \in [Request -> Waits]
    /\ call \in [Request -> Call \cup {None}]
    /\ answer \in [Request -> Answer \cup {None}]
    /\ outcome \in [Request -> {"none", "refused", "hit", "answered", "failed"}]
    /\ cache \in [Call -> Answer \cup {None}]
    /\ {hits, spent, counted, recorded, events, unclosed} \subseteq Nat
    /\ version \in [Call -> Nat]
    /\ {arrived, charged, refused, abandoned} \subseteq Nat
    /\ latest \in [Call -> Nat]
    /\ since \in [Request -> Nat]
    /\ raced \subseteq Call
    /\ \A r \in Request :
          /\ call[r] = None <=> pc[r] \in {"idle", "notifying"}
          /\ answer[r] = None <=> pc[r] \in {"idle", "notifying", "body", "forwarding"}

Open == {r \in Request : pc[r] \in {"warning", "auditing"}}

(* The promise: an answer of the upstream is charged once, counted once    *)
(* and recorded at most once, a hit is only counted, and nothing else      *)
(* touches the accounts, whatever interleaves, fails or restarts.          *)
Meter == INSTANCE CallMeter WITH open <- Open
ImplementsCallMeter == Meter!Spec

(* The numbers of three components that never talk to each other agree at  *)
(* any time: the requests in the metrics are the charges in the limiter    *)
(* and the hits in the cache, also after a restart.                        *)
TrafficAddsUp == counted = spent + hits

(* An answer in the cache is one that the upstream gave, with status 200,  *)
(* and that a handler has read to its end, however its own request ended.  *)
CachedAnswersAreComplete ==
    \A k \in Call : cache[k] # None =>
        cache[k].ok /\ cache[k].text /\ cache[k].whole /\ cache[k].version <= version[k]

(* A client whose requests follow one another never gets an answer older   *)
(* than one it has had, from the cache or not, through evictions and       *)
(* restarts, as long as no two requests fetch the same call at a time: two *)
(* that do can fill the cache in the wrong order.                          *)
ReadsMoveForward ==
    [][\A r \in Request :
          pc[r] \in {"body", "auditing", "streaming"} /\ outcome'[r] \in {"hit", "answered"}
          /\ call[r] \notin raced
          => LET v == IF answer[r] = None THEN cache[call[r]].version ELSE answer[r].version
             IN  v >= since[r]]_vars

(* recent_events outgrows its limit by what was refused and nothing else,  *)
(* although one event is trimmed at a time.                                *)
EventsGrowByRefusals == events <= EventLimit + refused

(* An upstream's response stays open only while a handler reads it or is   *)
(* about to, or for ever if its audit failed or its client left before its *)
(* stream began.                                                           *)
Reading == {r \in Request : pc[r] = "collecting" \/ (answer[r] # None /\ ~answer[r].text)}
ResponsesAreClosed == unclosed = Cardinality(Reading) + abandoned

(* A handler that has sent its request goes on to the answer's body or is  *)
(* done, and one that has charged its call is answered, streams, or gives  *)
(* up: an audit that fails is not tried again for ever.                    *)
RequestsMoveOn ==
    \A r \in Request :
        pc[r] \in {"forwarding", "auditing"} ~> pc[r] \in {"idle", "collecting", "streaming"}
================================================================================
