------------------------- MODULE RequestPipelineProofs -------------------------
(***************************************************************************)
(* Proofs about RequestPipeline, for any finite number of handlers and any *)
(* calls.  The invariant has a part for each question: the handlers' local *)
(* variables, the accounts, the open streams, and which answers are newer  *)
(* than which.                                                             *)
(***************************************************************************)
EXTENDS RequestPipeline, FiniteSetTheorems, TLAPS

-----------------------------------------------------------------------------
(* The local variables of the handlers. *)

NoCall == {"idle", "notifying"}
NoAnswer == {"idle", "notifying", "body", "forwarding"}

Locals ==
    /\ pc \in [Request -> Waits]
    /\ call \in [Request -> Call \cup {None}]
    /\ answer \in [Request -> Answer \cup {None}]
    /\ outcome \in [Request -> {"none", "refused", "hit", "answered", "failed"}]
    /\ \A r \in Request :
          /\ call[r] = None <=> pc[r] \in NoCall
          /\ answer[r] = None <=> pc[r] \in NoAnswer

\* The steps by which handler r is done with its request.
Quits(r) ==
    \/ Unrouted(r) \/ Refuse(r) \/ Notified(r) \/ Disconnect(r) \/ Block(r) \/ Hit(r)
    \/ Unavailable(r) \/ Break(r) \/ AuditText(r) \/ AuditFails(r) \/ Streamed(r) \/ StreamBreaks(r)

\* The steps by which it goes on to its next await with what it has.
Goes(r) ==
    \/ RefuseBudget(r) \/ Miss(r) \/ Warned(r) \/ AuditBinary(r)

\* The steps by which it gets an answer.
Hears(r) == RespondText(r) \/ RespondBinary(r)

\* The answer when it is read to its end, which Collected(r) does.
Whole(a) == [a EXCEPT !.whole = TRUE]

LEMMA WholeAnswer ==
    ASSUME NEW a \in Answer
    PROVE  /\ Whole(a) \in Answer /\ Whole(a).whole
           /\ Whole(a).version = a.version /\ Whole(a).ok = a.ok /\ Whole(a).text = a.text
  BY DEF Whole, Answer

LEMMA Shapes ==
    ASSUME NEW r \in Request
    PROVE  /\ Quits(r) => \E how \in {"refused", "hit", "answered", "failed"} : Finish(r, how)
           /\ Goes(r) => /\ answer' = answer
                         /\ \/ pc[r] \in NoCall /\ Goto(r, "notifying")
                            \/ pc[r] = "body" /\ Goto(r, "forwarding")
                            \/ pc[r] \notin NoAnswer /\ \E p \in Waits \ NoAnswer : Goto(r, p)
           /\ Hears(r) => /\ pc[r] = "forwarding"
                          /\ \E p \in {"collecting", "auditing"} : Goto(r, p)
                          /\ \E ok, text \in BOOLEAN :
                                answer' = [answer EXCEPT ![r] =
                                    [version |-> version[call[r]], ok |-> ok, text |-> text, whole |-> FALSE]]
           /\ Collected(r) => /\ pc[r] = "collecting"
                              /\ \E p \in {"auditing", "warning"} : Goto(r, p)
                              /\ answer' = [answer EXCEPT ![r] = Whole(answer[r])]
  <1>1. Quits(r) => \E how \in {"refused", "hit", "answered", "failed"} : Finish(r, how)
    BY DEF Quits, Unrouted, Refuse, Notified, Disconnect, Block, Hit, Unavailable, Break, AuditText,
           AuditFails, Streamed, StreamBreaks
  <1>2. Goes(r) => /\ answer' = answer
                   /\ \/ pc[r] \in NoCall /\ Goto(r, "notifying")
                      \/ pc[r] = "body" /\ Goto(r, "forwarding")
                      \/ pc[r] \notin NoAnswer /\ \E p \in Waits \ NoAnswer : Goto(r, p)
    BY DEF Goes, RefuseBudget, Arrives, Miss, Warned, AuditBinary, NoCall, NoAnswer, Waits
  <1>3. Hears(r) => /\ pc[r] = "forwarding"
                    /\ \E p \in {"collecting", "auditing"} : Goto(r, p)
                    /\ \E ok, text \in BOOLEAN :
                          answer' = [answer EXCEPT ![r] =
                              [version |-> version[call[r]], ok |-> ok, text |-> text, whole |-> FALSE]]
    BY DEF Hears, RespondText, RespondBinary, Responds
  <1>4. Collected(r) => /\ pc[r] = "collecting"
                        /\ \E p \in {"auditing", "warning"} : Goto(r, p)
                        /\ answer' = [answer EXCEPT ![r] = Whole(answer[r])]
    BY DEF Collected, Whole
  <1> QED
    BY <1>1, <1>2, <1>3, <1>4

LEMMA Steps ==
    Next <=> \/ \E r \in Request : Quits(r) \/ Goes(r) \/ Hears(r) \/ Collected(r) \/ Admit(r)
             \/ Evict \/ Change \/ Restart
  BY DEF Next, Quits, Goes, Hears

LEMMA FinishLocals ==
    ASSUME Locals, NEW r \in Request, NEW how \in {"refused", "hit", "answered", "failed"}, Finish(r, how)
    PROVE  Locals'
  BY DEF Locals, Finish, Waits, NoCall, NoAnswer

LEMMA StepLocals ==
    ASSUME Locals, version \in [Call -> Nat], [Next]_vars
    PROVE  Locals'
  <1>1. ASSUME NEW r \in Request, Quits(r) PROVE Locals'
    BY <1>1, Shapes, FinishLocals
  <1>2. ASSUME NEW r \in Request, Goes(r) PROVE Locals'
    <2>1. answer' = answer
      BY <1>2, Shapes
    <2>2. CASE pc[r] \in NoCall /\ Goto(r, "notifying")
      BY <2>1, <2>2 DEF Locals, Goto, Waits, NoCall, NoAnswer
    <2>3. CASE pc[r] = "body" /\ Goto(r, "forwarding")
      BY <2>1, <2>3 DEF Locals, Goto, Waits, NoCall, NoAnswer
    <2>4. CASE pc[r] \notin NoAnswer /\ \E p \in Waits \ NoAnswer : Goto(r, p)
      BY <2>1, <2>4 DEF Locals, Goto, Waits, NoCall, NoAnswer
    <2> QED
      BY <1>2, <2>2, <2>3, <2>4, Shapes
  <1>3. ASSUME NEW r \in Request, Hears(r) PROVE Locals'
    <2>1. pc[r] = "forwarding" /\ call[r] \in Call
      BY <1>3, Shapes DEF Locals, NoCall
    <2>2. PICK p \in {"collecting", "auditing"} : Goto(r, p)
      BY <1>3, Shapes
    <2>3. PICK a : a \in Answer /\ answer' = [answer EXCEPT ![r] = a]
      BY <1>3, <2>1, Shapes DEF Answer
    <2>4. a # None
      BY <2>3, PipelineAssumption DEF PipelineAssumption
    <2> QED
      BY <2>1, <2>2, <2>3, <2>4 DEF Locals, Goto, Waits, NoCall, NoAnswer
  <1>4. ASSUME NEW r \in Request, Admit(r) PROVE Locals'
    <2>1. PICK k \in Call : call' = [call EXCEPT ![r] = k]
      BY <1>4 DEF Admit
    <2>2. k # None
      BY PipelineAssumption DEF PipelineAssumption
    <2> QED
      BY <1>4, <2>1, <2>2 DEF Admit, Arrives, Locals, Waits, NoCall, NoAnswer
  <1>5. CASE Evict \/ Change
    BY <1>5 DEF Evict, Change, memory, Locals
  <1>6. CASE Restart
    BY <1>6 DEF Restart, Locals, Waits, NoCall, NoAnswer
  <1>7. CASE UNCHANGED vars
    BY <1>7 DEF vars, memory, Locals
  <1>8. ASSUME NEW r \in Request, Collected(r) PROVE Locals'
    <2>1. pc[r] = "collecting" /\ answer[r] \in Answer
      BY <1>8, Shapes DEF Locals, NoAnswer
    <2>2. PICK p \in {"auditing", "warning"} : Goto(r, p)
      BY <1>8, Shapes
    <2>3. PICK a : a \in Answer /\ answer' = [answer EXCEPT ![r] = a]
      BY <1>8, <2>1, Shapes, WholeAnswer
    <2>4. a # None
      BY <2>3, PipelineAssumption DEF PipelineAssumption
    <2> QED
      BY <2>1, <2>2, <2>3, <2>4 DEF Locals, Goto, Waits, NoCall, NoAnswer
  <1> QED
    BY <1>1, <1>2, <1>3, <1>4, <1>5, <1>6, <1>7, <1>8, Steps

-----------------------------------------------------------------------------
(* The accounts and the list of events. *)

Numbers ==
    /\ hits \in Nat /\ spent \in Nat /\ counted \in Nat /\ recorded \in Nat /\ charged \in Nat
    /\ events \in Nat /\ refused \in Nat
    /\ arrived \in Nat /\ abandoned \in Nat
    /\ TrafficAddsUp
    /\ EventsGrowByRefusals

LEMMA StepNumbers == ASSUME Numbers, [Next]_vars PROVE Numbers'
  <1> USE PipelineAssumption DEF PipelineAssumption, Numbers, TrafficAddsUp, EventsGrowByRefusals
  <1>1. ASSUME NEW r \in Request,
               Unrouted(r) \/ Notified(r) \/ Admit(r) \/ Disconnect(r) \/ Miss(r) \/ Unavailable(r)
        PROVE  Numbers'
    BY <1>1 DEF Unrouted, Notified, Admit, Disconnect, Miss, Unavailable, Arrives, meters, listed, streams
  <1>2. ASSUME NEW r \in Request, Refuse(r) \/ RefuseBudget(r) \/ Block(r) PROVE Numbers'
    BY <1>2 DEF Refuse, RefuseBudget, Block, Arrives, ListRefusal, meters, streams
  <1>3. ASSUME NEW r \in Request, Hit(r) PROVE Numbers'
    BY <1>3 DEF Hit, listed, streams
  <1>4. ASSUME NEW r \in Request, RespondText(r) \/ Break(r) \/ Warned(r) \/ Streamed(r) PROVE Numbers'
    BY <1>4 DEF RespondText, Break, Warned, Streamed, meters, listed, streams
  <1>5. ASSUME NEW r \in Request, RespondBinary(r) \/ Collected(r) PROVE Numbers'
    <2>1. /\ spent' = spent + 1 /\ counted' = counted + 1 /\ charged' = charged + 1
          /\ UNCHANGED <<hits, recorded, events, refused, arrived, abandoned>>
      BY <1>5 DEF RespondBinary, Collected, Charge, listed
    <2> QED
      BY <2>1
  <1>6. ASSUME NEW r \in Request, AuditText(r) PROVE Numbers'
    BY <1>6 DEF AuditText, Trimmed, streams
  <1>7. ASSUME NEW r \in Request, AuditBinary(r) PROVE Numbers'
    BY <1>7 DEF AuditBinary, listed, streams
  <1>8. ASSUME NEW r \in Request, AuditFails(r) \/ StreamBreaks(r) PROVE Numbers'
    BY <1>8 DEF AuditFails, StreamBreaks, meters, listed
  <1>9. CASE Evict
    BY <1>9 DEF Evict, meters, listed, streams
  <1>10. CASE Change
    BY <1>10 DEF Change, memory, ghosts
  <1>11. CASE Restart
    BY <1>11 DEF Restart
  <1>12. CASE UNCHANGED vars
    BY <1>12 DEF vars, memory, ghosts
  <1> QED
    BY <1>1, <1>2, <1>3, <1>4, <1>5, <1>6, <1>7, <1>8, <1>9, <1>10, <1>11, <1>12 DEF Next

-----------------------------------------------------------------------------
(* The answers, held and cached, and what was delivered of them. *)

Answers ==
    /\ cache \in [Call -> Answer \cup {None}]
    /\ version \in [Call -> Nat]
    /\ CachedAnswersAreComplete
    /\ \A r \in Request :
          /\ answer[r] # None => answer[r].version <= version[call[r]]
          /\ pc[r] \in {"collecting", "warning"} => answer[r].text
          /\ pc[r] = "streaming" => ~answer[r].text

Histories ==
    /\ latest \in [Call -> Nat]
    /\ since \in [Request -> Nat]
    /\ raced \subseteq Call

\* Whoever finishes leaves the other handlers' answers as they were.
LEMMA QuitAnswers ==
    ASSUME Locals, Answers, NEW r \in Request, NEW how, Finish(r, how),
           UNCHANGED <<cache, version>>
    PROVE  Answers'
  <1>1. \A q \in Request : q # r => pc'[q] = pc[q] /\ call'[q] = call[q] /\ answer'[q] = answer[q]
    BY DEF Finish, Locals
  <1>2. pc'[r] = "idle" /\ answer'[r] = None
    BY DEF Finish, Locals
  <1> QED
    BY <1>1, <1>2 DEF Answers, CachedAnswersAreComplete

LEMMA StepAnswers == ASSUME Locals, Answers, [Next]_vars PROVE Answers'
  <1>1. ASSUME NEW r \in Request, Quits(r) PROVE Answers'
    <2>1. UNCHANGED <<cache, version>>
      BY <1>1 DEF Quits, Unrouted, Refuse, Notified, Disconnect, Block, Hit, Unavailable, Break,
                  AuditText, AuditFails, Streamed, StreamBreaks
    <2> QED
      BY <1>1, <2>1, Shapes, QuitAnswers
  <1>2. ASSUME NEW r \in Request, RefuseBudget(r) \/ Miss(r) \/ Warned(r) \/ AuditBinary(r)
        PROVE  Answers'
    <2>1. UNCHANGED <<call, answer, cache, version>>
      BY <1>2 DEF RefuseBudget, Miss, Warned, AuditBinary, Goto
    <2>2. \A q \in Request : pc'[q] \in {"collecting", "warning"} => pc'[q] = pc[q]
      BY <1>2 DEF RefuseBudget, Miss, Warned, AuditBinary, Goto, Locals
    <2>3. \A q \in Request : pc'[q] = "streaming" => pc'[q] = pc[q] \/ ~answer[q].text
      BY <1>2 DEF RefuseBudget, Miss, Warned, AuditBinary, Goto, Locals
    <2> QED
      BY <2>1, <2>2, <2>3 DEF Answers, CachedAnswersAreComplete
  <1>3. ASSUME NEW r \in Request, Hears(r) PROVE Answers'
    <2>1. /\ r \in Request /\ call[r] \in Call
          /\ UNCHANGED <<call, cache, version>>
      BY <1>3, Shapes DEF Hears, RespondText, RespondBinary, Goto, Locals, NoCall
    <2>2. \A q \in Request : q # r => pc'[q] = pc[q] /\ answer'[q] = answer[q]
      BY <1>3, Shapes DEF Locals, Goto
    <2>3. answer'[r].version = version[call[r]]
      BY <1>3, Shapes DEF Locals
    <2>4. (pc'[r] \in {"collecting", "warning"} => answer'[r].text) /\ pc'[r] # "streaming"
      <3>1. CASE RespondText(r)
        BY <3>1 DEF RespondText, Responds, Goto, Locals
      <3>2. CASE RespondBinary(r)
        BY <3>2 DEF RespondBinary, Goto, Locals
      <3> QED
        BY <1>3, <3>1, <3>2 DEF Hears
    <2> QED
      BY <2>1, <2>2, <2>3, <2>4 DEF Answers, CachedAnswersAreComplete
  <1>4. ASSUME NEW r \in Request, Admit(r) PROVE Answers'
    <2>1. answer[r] = None /\ pc'[r] = "body"
      BY <1>4 DEF Admit, Arrives, Locals, NoAnswer
    <2>2. \A q \in Request : q # r => pc'[q] = pc[q] /\ call'[q] = call[q]
      BY <1>4 DEF Admit, Locals
    <2>3. UNCHANGED <<answer, cache, version>>
      BY <1>4 DEF Admit
    <2> QED
      BY <2>1, <2>2, <2>3 DEF Answers, CachedAnswersAreComplete
  <1>5. ASSUME NEW r \in Request, Collected(r) PROVE Answers'
    <2>1. UNCHANGED <<call, version>>
      BY <1>5 DEF Collected, Goto
    <2>2. call[r] \in Call /\ answer[r] # None /\ answer[r].text /\ answer[r] \in Answer
      BY <1>5 DEF Collected, Locals, Answers, NoCall, NoAnswer
    <2>3. PICK a \in Answer : /\ a = Whole(answer[r]) /\ a.whole /\ a.text
                              /\ a.version = answer[r].version
      BY <2>2, WholeAnswer
    <2>4. /\ answer'[r] = a
          /\ \A q \in Request : q # r => answer'[q] = answer[q]
          /\ cache' = IF a.ok THEN [cache EXCEPT ![call[r]] = a] ELSE cache
      BY <1>5, <2>3 DEF Collected, Whole, Fill, Locals
    <2>5. \A q \in Request : pc'[q] \in {"collecting", "warning", "streaming"} =>
             (q = r /\ pc'[q] # "streaming") \/ pc'[q] = pc[q]
      BY <1>5 DEF Collected, Goto, Locals
    <2>6. a.version <= version[call[r]]
      BY <2>2, <2>3 DEF Answers
    <2>7. \A k \in Call : cache'[k] # None =>
            cache'[k].ok /\ cache'[k].text /\ cache'[k].whole /\ cache'[k].version <= version[k]
      BY <2>2, <2>3, <2>4, <2>6 DEF Answers, CachedAnswersAreComplete
    <2>8. cache' \in [Call -> Answer \cup {None}]
      BY <2>2, <2>4 DEF Answers
    <2> QED
      BY <2>1, <2>2, <2>3, <2>4, <2>5, <2>6, <2>7, <2>8 DEF Answers, CachedAnswersAreComplete
  <1>6. CASE Evict
    BY <1>6 DEF Evict, Answers, CachedAnswersAreComplete
  <1>7. CASE Change
    <2>1. PICK k \in Call : version' = [version EXCEPT ![k] = version[k] + 1]
      BY <1>7 DEF Change
    <2>2. \A j \in Call : version'[j] \in Nat /\ version[j] <= version'[j]
      BY <2>1 DEF Answers
    <2>3. UNCHANGED <<pc, call, answer, cache>>
      BY <1>7 DEF Change, memory
    <2>4. \A r \in Request : answer[r] # None => call[r] \in Call /\ answer[r].version \in Nat
      BY DEF Locals, NoCall, NoAnswer, Answer
    <2>5. \A j \in Call : cache[j] # None => cache[j].version \in Nat
      BY DEF Answers, Answer
    <2>6. version' \in [Call -> Nat]
      BY <2>1 DEF Answers
    <2>7. \A r \in Request : answer[r] # None => answer[r].version <= version'[call[r]]
      BY <2>2, <2>4 DEF Answers
    <2>8. \A j \in Call : cache[j] # None => cache[j].version <= version'[j]
      BY <2>2, <2>5 DEF Answers, CachedAnswersAreComplete
    <2> QED
      BY <2>3, <2>6, <2>7, <2>8 DEF Answers, CachedAnswersAreComplete
  <1>8. CASE Restart
    BY <1>8 DEF Restart, Answers, CachedAnswersAreComplete
  <1>9. CASE UNCHANGED vars
    BY <1>9 DEF vars, memory, Answers, CachedAnswersAreComplete
  <1> QED
    BY <1>1, <1>2, <1>3, <1>4, <1>5, <1>6, <1>7, <1>8, <1>9, Steps DEF Goes

LEMMA StepHistories == ASSUME Locals, Answers, Histories, [Next]_vars PROVE Histories'
  <1>1. ASSUME NEW r \in Request, Hit(r) \/ AuditText(r) \/ Streamed(r) PROVE Histories'
    <2>1. PICK v \in Nat : Deliver(call[r], v)
      BY <1>1 DEF Hit, AuditText, Streamed, Locals, Answers, NoCall, NoAnswer, Answer
    <2>2. UNCHANGED <<since, raced>>
      BY <1>1 DEF Hit, AuditText, Streamed
    <2> QED
      BY <2>1, <2>2 DEF Deliver, Histories
  <1>2. ASSUME NEW r \in Request, Miss(r) PROVE Histories'
    BY <1>2 DEF Miss, Histories, Locals, NoCall
  <1>3. ASSUME NEW r \in Request, Admit(r) PROVE Histories'
    BY <1>3 DEF Admit, Histories
  <1>4. ASSUME NEW r \in Request,
               \/ Unrouted(r) \/ Refuse(r) \/ RefuseBudget(r) \/ Notified(r) \/ Disconnect(r) \/ Block(r)
               \/ Unavailable(r) \/ RespondText(r) \/ RespondBinary(r) \/ Break(r) \/ Collected(r)
               \/ Warned(r) \/ AuditBinary(r) \/ AuditFails(r) \/ StreamBreaks(r)
        PROVE  Histories'
    BY <1>4 DEF Unrouted, Refuse, RefuseBudget, Notified, Disconnect, Block, Unavailable, RespondText,
                RespondBinary, Break, Collected, Warned, AuditBinary, AuditFails, StreamBreaks,
                history, Histories
  <1>5. CASE Evict \/ Restart
    BY <1>5 DEF Evict, Restart, history, Histories
  <1>6. CASE Change \/ UNCHANGED vars
    BY <1>6 DEF Change, vars, ghosts, Histories
  <1> QED
    BY <1>1, <1>2, <1>3, <1>4, <1>5, <1>6 DEF Next

-----------------------------------------------------------------------------
(* The streams of the upstreams' responses. *)

Closed == unclosed \in Nat /\ ResponsesAreClosed

\* A step of handler r leaves what the others wait for and hold.
LEMMA OnlyMine ==
    ASSUME Locals, NEW r \in Request, Quits(r) \/ Goes(r) \/ Hears(r) \/ Collected(r) \/ Admit(r)
    PROVE  \A q \in Request : q # r => /\ pc'[q] = pc[q]
                                       /\ answer'[q] = answer[q]
                                       /\ call'[q] = call[q]
  <1>1. CASE Quits(r)
    BY <1>1, Shapes DEF Finish, Locals
  <1>2. CASE Goes(r)
    BY <1>2, Shapes DEF Goto, Locals
  <1>3. CASE Hears(r)
    BY <1>3, Shapes DEF Goto, Locals
  <1>4. CASE Admit(r)
    BY <1>4 DEF Admit, Locals
  <1>5. CASE Collected(r)
    BY <1>5, Shapes DEF Goto, Locals
  <1> QED
    BY <1>1, <1>2, <1>3, <1>4, <1>5

LEMMA StepClosed ==
    ASSUME Locals, Answers, Closed, abandoned \in Nat, [Next]_vars
    PROVE  Closed'
  <1>0. Reading \subseteq Request /\ IsFiniteSet(Reading) /\ Cardinality(Reading) \in Nat
    BY PipelineAssumption, FS_Subset, FS_CardinalityType DEF PipelineAssumption, Reading
  <1>1. ASSUME NEW r \in Request, Quits(r) \/ Goes(r) \/ Hears(r) \/ Collected(r) \/ Admit(r) PROVE Closed'
    <2>1. \A q \in Request : q # r => (q \in Reading' <=> q \in Reading)
      BY <1>1, OnlyMine DEF Reading
    <2>2. ASSUME r \notin Reading, r \notin Reading', UNCHANGED <<unclosed, abandoned>> PROVE Closed'
      <3>1. Reading' = Reading
        BY <2>1, <2>2 DEF Reading
      <3> QED
        BY <2>2, <3>1 DEF Closed, ResponsesAreClosed
    <2>3. ASSUME r \in Reading, r \in Reading', UNCHANGED <<unclosed, abandoned>> PROVE Closed'
      <3>1. Reading' = Reading
        BY <2>1, <2>3 DEF Reading
      <3> QED
        BY <2>3, <3>1 DEF Closed, ResponsesAreClosed
    <2>4. ASSUME r \notin Reading, r \in Reading', unclosed' = unclosed + 1, UNCHANGED abandoned
          PROVE  Closed'
      <3>1. Reading' = Reading \cup {r}
        BY <2>1, <2>4 DEF Reading
      <3>2. Cardinality(Reading') = Cardinality(Reading) + 1
        BY <1>0, <2>4, <3>1, FS_AddElement
      <3> QED
        BY <1>0, <2>4, <3>2 DEF Closed, ResponsesAreClosed
    <2>5. ASSUME r \in Reading, r \notin Reading',
                 \/ unclosed' = unclosed - 1 /\ UNCHANGED abandoned
                 \/ abandoned' = abandoned + 1 /\ UNCHANGED unclosed
          PROVE  Closed'
      <3>1. Reading' = Reading \ {r}
        BY <2>1, <2>5 DEF Reading
      <3>2. Cardinality(Reading') = Cardinality(Reading) - 1 /\ Cardinality(Reading') \in Nat
        BY <1>0, <2>5, <3>1, FS_RemoveElement, FS_Subset, FS_CardinalityType
      <3> QED
        BY <1>0, <2>5, <3>2 DEF Closed, ResponsesAreClosed
    <2>6. CASE \/ Unrouted(r) \/ Refuse(r) \/ RefuseBudget(r) \/ Notified(r) \/ Admit(r)
               \/ Disconnect(r) \/ Block(r) \/ Hit(r) \/ Miss(r) \/ Unavailable(r)
      <3>1. r \notin Reading /\ answer[r] = None
        BY <2>6 DEF Unrouted, Refuse, RefuseBudget, Notified, Admit, Disconnect, Block, Hit, Miss,
                    Unavailable, Arrives, Reading, Locals, NoAnswer
      <3>2. pc'[r] # "collecting" /\ answer'[r] = None
        BY <2>6, <3>1 DEF Unrouted, Refuse, RefuseBudget, Notified, Admit, Disconnect, Block, Hit,
                    Miss, Unavailable, Goto, Finish, Locals
      <3>3. UNCHANGED <<unclosed, abandoned>>
        BY <2>6 DEF Unrouted, Refuse, RefuseBudget, Notified, Admit, Disconnect, Block, Hit, Miss,
                    Unavailable, streams
      <3> QED
        BY <2>2, <3>1, <3>2, <3>3 DEF Reading
    <2>7. CASE RespondText(r)
      <3>1. r \notin Reading
        BY <2>7 DEF RespondText, Responds, Reading, Locals, NoAnswer
      <3>2. pc'[r] = "collecting" /\ unclosed' = unclosed + 1 /\ UNCHANGED abandoned
        BY <2>7 DEF RespondText, Responds, Goto, Locals
      <3> QED
        BY <2>4, <3>1, <3>2 DEF Reading
    <2>8. CASE RespondBinary(r)
      <3>1. r \notin Reading
        BY <2>8 DEF RespondBinary, Responds, Reading, Locals, NoAnswer
      <3>2. PICK a \in Answer : answer'[r] = a /\ ~a.text
        <4>0. pc[r] = "forwarding"
          BY <2>8 DEF RespondBinary, Responds
        <4>1. call[r] \in Call
          BY <4>0 DEF Locals, NoCall
        <4>3. version[call[r]] \in Nat
          BY <4>1 DEF Answers
        <4>2. PICK ok \in BOOLEAN :
                 answer'[r] = [version |-> version[call[r]], ok |-> ok, text |-> FALSE, whole |-> FALSE]
          BY <2>8 DEF RespondBinary, Responds, Locals
        <4>4. [version |-> version[call[r]], ok |-> ok, text |-> FALSE, whole |-> FALSE] \in Answer
          BY <4>2, <4>3 DEF Answer
        <4> QED
          BY <4>2, <4>4
      <3>3. unclosed' = unclosed + 1 /\ UNCHANGED abandoned
        BY <2>8 DEF RespondBinary, Responds
      <3> QED
        BY <2>4, <3>1, <3>2, <3>3, PipelineAssumption DEF Reading, PipelineAssumption
    <2>9. CASE Break(r)
      <3>1. r \in Reading
        BY <2>9 DEF Break, Reading
      <3>2. pc'[r] = "idle" /\ answer'[r] = None
        BY <2>9 DEF Break, Finish, Locals
      <3>3. unclosed' = unclosed - 1 /\ UNCHANGED abandoned
        BY <2>9 DEF Break
      <3> QED
        BY <2>5, <3>1, <3>2, <3>3 DEF Reading
    <2>10. CASE Collected(r)
      <3>1. r \in Reading /\ answer[r].text
        BY <2>10 DEF Collected, Reading, Answers
      <3>2. pc'[r] # "collecting" /\ answer'[r] = Whole(answer[r]) /\ answer[r] \in Answer
        BY <2>10 DEF Collected, Whole, Goto, Locals, NoAnswer
      <3>4. answer'[r].text
        BY <3>1, <3>2, WholeAnswer
      <3>3. unclosed' = unclosed - 1 /\ UNCHANGED abandoned
        BY <2>10 DEF Collected
      <3> QED
        BY <2>5, <3>1, <3>2, <3>3, <3>4 DEF Reading
    <2>11. CASE Warned(r) \/ AuditText(r)
      <3>1. r \notin Reading
        BY <2>11 DEF Warned, AuditText, Reading, Answers
      <3>2. r \notin Reading'
        BY <2>11 DEF Warned, AuditText, Goto, Finish, Reading, Locals, Answers
      <3>3. UNCHANGED <<unclosed, abandoned>>
        BY <2>11 DEF Warned, AuditText, streams
      <3> QED
        BY <2>2, <3>1, <3>2, <3>3
    <2>12. CASE AuditBinary(r)
      <3>1. r \in Reading
        BY <2>12 DEF AuditBinary, Reading, Locals, NoAnswer
      <3>2. UNCHANGED <<answer, unclosed, abandoned>>
        BY <2>12 DEF AuditBinary, streams
      <3>3. answer[r] # None /\ ~answer[r].text
        BY <2>12 DEF AuditBinary, Locals, NoAnswer
      <3> QED
        BY <2>3, <3>1, <3>2, <3>3 DEF Reading
    <2>13. CASE Streamed(r) \/ StreamBreaks(r)
      <3>1. r \in Reading
        BY <2>13 DEF Streamed, StreamBreaks, Reading, Locals, NoAnswer, Answers
      <3>2. pc'[r] = "idle" /\ answer'[r] = None
        BY <2>13 DEF Streamed, StreamBreaks, Finish, Locals
      <3>3. \/ unclosed' = unclosed - 1 /\ UNCHANGED abandoned
            \/ abandoned' = abandoned + 1 /\ UNCHANGED unclosed
        BY <2>13 DEF Streamed, StreamBreaks
      <3> QED
        BY <2>5, <3>1, <3>2, <3>3 DEF Reading
    <2>14. CASE AuditFails(r)
      <3>1. pc'[r] = "idle" /\ answer'[r] = None /\ UNCHANGED unclosed
        BY <2>14 DEF AuditFails, Finish, Locals
      <3>2. r \notin Reading'
        BY <3>1 DEF Reading
      <3>3. CASE answer[r].text
        <4>1. r \notin Reading /\ UNCHANGED abandoned
          BY <2>14, <3>3 DEF AuditFails, Reading
        <4> QED
          BY <2>2, <3>1, <3>2, <4>1
      <3>4. CASE ~answer[r].text
        <4>1. r \in Reading /\ abandoned' = abandoned + 1
          BY <2>14, <3>4 DEF AuditFails, Reading, Locals, NoAnswer
        <4> QED
          BY <2>5, <3>1, <3>2, <4>1
      <3> QED
        BY <3>3, <3>4
    <2> QED
      BY <1>1, <2>6, <2>7, <2>8, <2>9, <2>10, <2>11, <2>12, <2>13, <2>14 DEF Quits, Goes, Hears
  <1>2. CASE Restart
    <2>1. Reading' = {}
      BY <1>2 DEF Restart, Reading
    <2> QED
      BY <1>2, <2>1, FS_EmptySet DEF Restart, Closed, ResponsesAreClosed
  <1>3. CASE Evict \/ Change \/ UNCHANGED vars
    <2>1. UNCHANGED <<pc, answer, unclosed, abandoned>>
      BY <1>3 DEF Evict, Change, vars, memory, ghosts, streams
    <2>2. Reading' = Reading
      BY <2>1 DEF Reading
    <2> QED
      BY <2>1, <2>2 DEF Closed, ResponsesAreClosed
  <1> QED
    BY <1>1, <1>2, <1>3, Steps

-----------------------------------------------------------------------------
(* The invariant so far. *)

Ledgers == Locals /\ Numbers /\ Answers /\ Histories /\ Closed

LEMMA AlwaysLedgers == Spec => []Ledgers
  <1>1. Init => Ledgers
    <2> SUFFICES ASSUME Init PROVE Ledgers
      OBVIOUS
    <2>1. Locals
      BY DEF Init, Locals, Waits, NoCall, NoAnswer
    <2>2. Numbers
      BY PipelineAssumption DEF PipelineAssumption, Init, Numbers, TrafficAddsUp, EventsGrowByRefusals
    <2>3. Answers /\ Histories
      BY DEF Init, Answers, CachedAnswersAreComplete, Histories
    <2>4. Reading = {}
      BY DEF Init, Reading
    <2>5. Closed
      BY <2>4, FS_EmptySet DEF Init, Closed, ResponsesAreClosed
    <2> QED
      BY <2>1, <2>2, <2>3, <2>5 DEF Ledgers
  <1>2. Ledgers /\ [Next]_vars => Ledgers'
    <2> SUFFICES ASSUME Ledgers, [Next]_vars PROVE Ledgers'
      OBVIOUS
    <2>1. Locals /\ Numbers /\ Answers /\ Histories /\ Closed
      BY DEF Ledgers
    <2>2. version \in [Call -> Nat] /\ abandoned \in Nat
      BY <2>1 DEF Answers, Numbers
    <2> QED
      BY <2>1, <2>2, StepLocals, StepNumbers, StepAnswers, StepHistories, StepClosed DEF Ledgers
  <1> QED
    BY <1>1, <1>2, PTL DEF Spec

(* The variables have their types, and a handler has a call from the time  *)
(* it is admitted, and an answer from the time the forwarder returns one,  *)
(* until it is done, however many handlers there are.                      *)
THEOREM TypeCorrect == Spec => []TypeOK
  <1>1. Ledgers => TypeOK
    <2> SUFFICES ASSUME Ledgers PROVE TypeOK
      OBVIOUS
    <2>1. Locals /\ Numbers /\ Answers /\ Histories /\ unclosed \in Nat
      BY DEF Ledgers, Closed
    <2>2. /\ {hits, spent, counted, recorded, events, unclosed} \subseteq Nat
          /\ {arrived, charged, refused, abandoned} \subseteq Nat
      BY <2>1 DEF Numbers
    <2> QED
      BY <2>1, <2>2 DEF TypeOK, Locals, Answers, Histories, NoCall, NoAnswer
  <1> QED
    BY <1>1, AlwaysLedgers, PTL

(* The requests in the metrics are always the charges in the limiter and   *)
(* the hits in the cache.                                                  *)
THEOREM AccountsAgree == Spec => []TrafficAddsUp
  <1>1. Ledgers => TrafficAddsUp
    BY DEF Ledgers, Numbers
  <1> QED
    BY <1>1, AlwaysLedgers, PTL

(* Only answers with status 200 that a handler has read to their end get   *)
(* into the cache, however many handlers break off their streams.          *)
THEOREM CachesComplete == Spec => []CachedAnswersAreComplete
  <1>1. Ledgers => CachedAnswersAreComplete
    BY DEF Ledgers, Answers
  <1> QED
    BY <1>1, AlwaysLedgers, PTL

(* The list of events outgrows its limit by refusals only.                 *)
THEOREM EventsAreTrimmed == Spec => []EventsGrowByRefusals
  <1>1. Ledgers => EventsGrowByRefusals
    BY DEF Ledgers, Numbers
  <1> QED
    BY <1>1, AlwaysLedgers, PTL

(* Every open response of an upstream has a handler that reads it, or has  *)
(* been abandoned by a failed audit or a client who left.                  *)
THEOREM StreamsAreClosed == Spec => []ResponsesAreClosed
  <1>1. Ledgers => ResponsesAreClosed
    BY DEF Ledgers, Closed
  <1> QED
    BY <1>1, AlwaysLedgers, PTL

-----------------------------------------------------------------------------
(* The accounts as CallMeter has them. *)

LEMMA StepMeter ==
    ASSUME Locals, [Next]_vars
    PROVE  [Meter!Next]_(Meter!vars)
  <1>1. ASSUME NEW r \in Request, Quits(r) \/ Goes(r) \/ Hears(r) \/ Collected(r) \/ Admit(r)
        PROVE  [Meter!Next]_(Meter!vars)
    <2>1. \A q \in Request : q # r => (q \in Open' <=> q \in Open)
      BY <1>1, OnlyMine DEF Open
    <2>2. ASSUME r \in Open' <=> r \in Open, UNCHANGED <<spent, counted, recorded, charged>>
          PROVE  [Meter!Next]_(Meter!vars)
      <3>1. Open' = Open
        BY <2>1, <2>2 DEF Open
      <3> QED
        BY <2>2, <3>1 DEF Meter!vars
    <2>3. CASE \/ Unrouted(r) \/ Refuse(r) \/ RefuseBudget(r) \/ Notified(r) \/ Admit(r)
               \/ Disconnect(r) \/ Block(r) \/ Miss(r) \/ Unavailable(r) \/ RespondText(r)
               \/ Break(r) \/ Streamed(r) \/ StreamBreaks(r)
      <3>1. r \notin Open
        BY <2>3 DEF Unrouted, Refuse, RefuseBudget, Notified, Admit, Disconnect, Block, Miss,
                    Unavailable, RespondText, Responds, Break, Streamed, StreamBreaks, Arrives, Open
      <3>2. r \notin Open'
        BY <2>3 DEF Unrouted, Refuse, RefuseBudget, Notified, Admit, Disconnect, Block, Miss,
                    Unavailable, RespondText, Break, Streamed, StreamBreaks, Goto, Finish, Open, Locals
      <3>3. UNCHANGED <<spent, counted, recorded, charged>>
        BY <2>3 DEF Unrouted, Refuse, RefuseBudget, Notified, Admit, Disconnect, Block, Miss,
                    Unavailable, RespondText, Break, Streamed, StreamBreaks, meters
      <3> QED
        BY <2>2, <3>1, <3>2, <3>3
    <2>4. CASE Warned(r)
      <3>1. r \in Open /\ r \in Open' /\ UNCHANGED <<spent, counted, recorded, charged>>
        BY <2>4 DEF Warned, Goto, Open, Locals, meters
      <3> QED
        BY <2>2, <3>1
    <2>5. CASE Hit(r)
      <3>1. r \notin Open /\ r \notin Open'
        BY <2>5 DEF Hit, Finish, Open, Locals
      <3>2. Open' = Open
        BY <2>1, <3>1 DEF Open
      <3> QED
        BY <2>5, <3>2 DEF Hit, Meter!Next, Meter!Hit
    <2>6. CASE RespondBinary(r) \/ Collected(r)
      <3>1. r \notin Open /\ r \in Open'
        BY <2>6 DEF RespondBinary, Responds, Collected, Goto, Open, Locals
      <3>2. Open' = Open \cup {r}
        BY <2>1, <3>1 DEF Open
      <3>3. Meter!Charge(r)
        BY <2>6, <3>1, <3>2 DEF RespondBinary, Collected, Charge, Meter!Charge
      <3> QED
        BY <3>3 DEF Meter!Next
    <2>7. CASE AuditText(r) \/ AuditBinary(r) \/ AuditFails(r)
      <3>1. r \in Open /\ r \notin Open'
        BY <2>7 DEF AuditText, AuditBinary, AuditFails, Goto, Finish, Open, Locals
      <3>2. Open' = Open \ {r}
        BY <2>1, <3>1 DEF Open
      <3>3. Meter!Record(r) \/ Meter!GiveUp(r)
        BY <2>7, <3>1, <3>2 DEF AuditText, AuditBinary, AuditFails, meters, Meter!Record, Meter!GiveUp
      <3> QED
        BY <3>3 DEF Meter!Next
    <2> QED
      BY <1>1, <2>3, <2>4, <2>5, <2>6, <2>7 DEF Quits, Goes, Hears
  <1>2. CASE Restart
    <2>1. Open' = {}
      BY <1>2 DEF Restart, Open
    <2> QED
      BY <1>2, <2>1 DEF Restart, Meter!Next, Meter!Crash
  <1>3. CASE Evict \/ Change \/ UNCHANGED vars
    <2>1. UNCHANGED <<pc, spent, counted, recorded, charged>>
      BY <1>3 DEF Evict, Change, vars, memory, ghosts, meters
    <2>2. Open' = Open
      BY <2>1 DEF Open
    <2> QED
      BY <2>1, <2>2 DEF Meter!vars
  <1> QED
    BY <1>1, <1>2, <1>3, Steps

(* The pipeline keeps the promise of CallMeter, with any number of         *)
(* handlers, whatever interleaves, fails or restarts.                      *)
THEOREM MeterRefinement == Spec => ImplementsCallMeter
  <1>1. Init => Meter!Init
    <2> SUFFICES ASSUME Init PROVE Meter!Init
      OBVIOUS
    <2>1. Open = {}
      BY DEF Init, Open
    <2> QED
      BY <2>1 DEF Init, Meter!Init
  <1>2. Ledgers /\ [Next]_vars => [Meter!Next]_(Meter!vars)
    BY StepMeter DEF Ledgers
  <1> QED
    BY <1>1, <1>2, AlwaysLedgers, PTL DEF Spec, ImplementsCallMeter, Meter!Spec

(* What follows from that promise alone: the calls between charge and      *)
(* record are charged already.                                             *)
Metered ==
    /\ IsFiniteSet(Open)
    /\ recorded \in Nat
    /\ charged \in Nat
    /\ recorded + Cardinality(Open) <= charged

\* An instance has its own name for Cardinality.
LEMMA MeterNames == ASSUME NEW S PROVE Meter!Cardinality(S) = Cardinality(S)
  BY DEF Cardinality, Meter!Cardinality

LEMMA StepMetered == ASSUME Metered, [Meter!Next]_(Meter!vars) PROVE Metered'
  <1> USE DEF Metered
  <1>0. Cardinality(Open) \in Nat
    BY FS_CardinalityType
  <1>1. ASSUME NEW r \in Request, Meter!Charge(r) PROVE Metered'
    <2>1. Open' = Open \cup {r} /\ r \notin Open /\ recorded' = recorded /\ charged' = charged + 1
      BY <1>1 DEF Meter!Charge
    <2>2. Cardinality(Open') = Cardinality(Open) + 1 /\ IsFiniteSet(Open')
      BY <2>1, FS_AddElement
    <2> QED
      BY <1>0, <2>1, <2>2
  <1>2. ASSUME NEW r \in Request, Meter!Record(r) \/ Meter!GiveUp(r) PROVE Metered'
    <2>1. Open' = Open \ {r} /\ r \in Open /\ recorded' \in {recorded, recorded + 1} /\ charged' = charged
      BY <1>2 DEF Meter!Record, Meter!GiveUp
    <2>2. Cardinality(Open') = Cardinality(Open) - 1 /\ IsFiniteSet(Open')
      BY <2>1, FS_RemoveElement
    <2> QED
      BY <1>0, <2>1, <2>2
  <1>3. CASE Meter!Crash
    <2>1. Open' = {} /\ recorded' = recorded /\ charged' = charged
      BY <1>3 DEF Meter!Crash
    <2>2. Cardinality(Open') = 0 /\ IsFiniteSet(Open')
      BY <2>1, FS_EmptySet
    <2> QED
      BY <1>0, <2>1, <2>2
  <1>4. CASE Meter!Hit \/ UNCHANGED Meter!vars
    BY <1>4 DEF Meter!Hit, Meter!vars
  <1> QED
    BY <1>1, <1>2, <1>3, <1>4 DEF Meter!Next

LEMMA MeterRecords == Meter!Spec => []Meter!RecordedWereCharged
  <1>1. Meter!Init => Metered
    BY FS_EmptySet DEF Meter!Init, Metered
  <1>2. Metered /\ [Meter!Next]_(Meter!vars) => Metered'
    BY StepMetered
  <1>3. Metered => Meter!RecordedWereCharged
    BY MeterNames DEF Metered, Meter!RecordedWereCharged
  <1> QED
    BY <1>1, <1>2, <1>3, PTL DEF Meter!Spec

(* Whatever the handlers charge, record, give up or lose in restarts, the  *)
(* audit ledger never has more records than answers were charged: no call  *)
(* is recorded twice, and none before it is paid for.                      *)
THEOREM NothingRecordedTwice == Spec => []Meter!RecordedWereCharged
  BY MeterRefinement, MeterRecords, PTL DEF ImplementsCallMeter

-----------------------------------------------------------------------------
(* Which answers are newer than which. *)

\* Whoever has version v of the answer to k has the newest there is.
Newest(k, v) ==
    /\ latest[k] <= v
    /\ \A q \in Request : call[q] = k /\ answer[q] # None => answer[q].version <= v

Fetches(r) == pc[r] \in {"forwarding", "collecting"}

\* What handler r has seen is no newer than what it gets.
Behind(r) ==
    /\ call[r] # None => since[r] <= latest[call[r]]
    /\ answer[r] # None => since[r] <= answer[r].version
    /\ pc[r] = "body" => outcome[r] = "none"

\* One handler at most fetches k, and only while k is not cached; a cached answer and
\* one that will be are the newest.
Settled(k) ==
    /\ \A q, r \in Request : Fetches(q) /\ call[q] = k /\ Fetches(r) /\ call[r] = k => q = r
    /\ \A r \in Request : Fetches(r) /\ call[r] = k => cache[k] = None
    /\ cache[k] # None => Newest(k, cache[k].version)
    /\ \A r \in Request :
          pc[r] = "collecting" /\ call[r] = k => Newest(k, answer[r].version)

Fresh ==
    /\ \A k \in Call : latest[k] <= version[k]
    /\ \A r \in Request : Behind(r)
    /\ \A k \in Call \ raced : Settled(k)

\* A step that gives nobody a call or an answer keeps what is newer than what, unless it
\* delivers something newer than an answer that is cached or about to be.
LEMMA CalmKeeps ==
    ASSUME Locals, Answers, Histories, Fresh, Histories', Answers', Locals',
           \A k \in Call :
              /\ version[k] <= version'[k] /\ latest'[k] <= version[k] /\ latest[k] <= latest'[k]
              /\ k \notin raced /\ cache[k] # None => latest'[k] <= cache[k].version
              /\ cache'[k] = cache[k] \/ cache'[k] = None,
           \A q \in Request :
              /\ call'[q] # None => call'[q] = call[q] /\ since'[q] = since[q]
              /\ answer'[q] # None => answer'[q] = answer[q]
              /\ pc'[q] \in {"forwarding", "collecting", "body"} => pc'[q] = pc[q]
              /\ pc'[q] = "body" => outcome'[q] = outcome[q]
              /\ \A k \in Call \ raced :
                    pc[q] = "collecting" /\ call[q] = k => latest'[k] <= answer[q].version,
           raced' = raced
    PROVE  Fresh'
  <1>1. \A k \in Call : latest'[k] <= version'[k]
    BY DEF Histories, Answers
  <1>2. ASSUME NEW r \in Request, call'[r] # None PROVE since'[r] <= latest'[call'[r]]
    <2>1. call'[r] = call[r] /\ since'[r] = since[r] /\ call[r] \in Call
      BY <1>2 DEF Locals
    <2>2. since[r] <= latest[call[r]] /\ latest[call[r]] <= latest'[call[r]]
      BY <2>1, <1>2 DEF Fresh, Behind, Settled
    <2>3. since[r] \in Nat /\ latest[call[r]] \in Nat /\ latest'[call[r]] \in Nat
      BY <2>1 DEF Histories
    <2> QED
      BY <2>1, <2>2, <2>3
  <1>3. ASSUME NEW r \in Request, answer'[r] # None PROVE since'[r] <= answer'[r].version
    <2>1. call'[r] # None
      BY <1>3 DEF Locals, NoCall, NoAnswer
    <2> QED
      BY <1>3, <2>1 DEF Fresh, Behind, Settled
  <1>4. ASSUME NEW r \in Request, pc'[r] = "body" PROVE outcome'[r] = "none"
    BY <1>4 DEF Fresh, Behind, Settled
  <1>5. ASSUME NEW k \in Call \ raced', NEW v \in Nat, Newest(k, v), latest'[k] <= v
        PROVE  Newest(k, v)'
    <2>1. \A q \in Request : call'[q] = k /\ answer'[q] # None => call[q] = k /\ answer[q] # None
                                                                /\ answer'[q] = answer[q]
      BY PipelineAssumption DEF PipelineAssumption
    <2> QED
      BY <1>5, <2>1 DEF Newest
  <1>6. ASSUME NEW k \in Call \ raced', NEW r \in Request, Fetches(r)', call'[r] = k
        PROVE  Fetches(r) /\ call[r] = k /\ pc[r] = pc'[r]
    BY <1>6, PipelineAssumption DEF PipelineAssumption, Fetches
  <1>7. ASSUME NEW k \in Call \ raced', NEW q \in Request, NEW r \in Request,
               Fetches(q)', call'[q] = k, Fetches(r)', call'[r] = k
        PROVE  q = r
    <2>1. Fetches(q) /\ call[q] = k /\ Fetches(r) /\ call[r] = k
      BY <1>6, <1>7
    <2> QED
      BY <2>1, <1>7 DEF Fresh, Behind, Settled
  <1>8. ASSUME NEW k \in Call \ raced', NEW r \in Request, Fetches(r)', call'[r] = k
        PROVE  cache'[k] = None
    BY <1>6, <1>8 DEF Fresh, Behind, Settled
  <1>9. ASSUME NEW k \in Call \ raced', cache'[k] # None PROVE Newest(k, cache[k].version)'
    <2>0. k \in Call /\ k \notin raced
      BY <1>9
    <2>1. cache'[k] = cache[k] /\ cache[k] # None
      BY <1>9
    <2>2. PICK v : v = cache[k].version
      OBVIOUS
    <2>3. v \in Nat
      BY <2>1, <2>2 DEF Answers, Answer
    <2>4. Newest(k, v) /\ latest'[k] <= v
      BY <2>0, <2>1, <2>2 DEF Fresh, Behind, Settled
    <2>5. Newest(k, v)'
      BY <1>5, <1>9, <2>3, <2>4
    <2> QED
      BY <2>1, <2>2, <2>5 DEF Newest
  <1>10. ASSUME NEW k \in Call \ raced', NEW r \in Request, pc'[r] = "collecting", call'[r] = k
         PROVE  Newest(k, answer[r].version)'
    <2>0. k \in Call /\ k \notin raced
      BY <1>10
    <2>1. pc[r] = "collecting" /\ call[r] = k
      BY <1>6, <1>10 DEF Fetches
    <2>2. answer'[r] = answer[r] /\ answer[r] \in Answer
      BY <1>10, <2>1 DEF Locals, NoAnswer
    <2>3. PICK v : v = answer[r].version
      OBVIOUS
    <2>4. v \in Nat
      BY <2>2, <2>3 DEF Answer
    <2>5. Newest(k, v) /\ latest'[k] <= v
      BY <2>0, <2>1, <2>3 DEF Fresh, Behind, Settled
    <2>6. Newest(k, v)'
      BY <1>5, <1>10, <2>4, <2>5
    <2> QED
      BY <2>2, <2>3, <2>6 DEF Newest
  <1>11. \A k \in (Call \ raced)' :
            /\ \A q, r \in Request :
                  Fetches(q)' /\ call'[q] = k /\ Fetches(r)' /\ call'[r] = k => q = r
            /\ \A r \in Request : Fetches(r)' /\ call'[r] = k => cache'[k] = None
            /\ cache'[k] # None => Newest(k, cache[k].version)'
            /\ \A r \in Request :
                  pc'[r] = "collecting" /\ call'[r] = k => Newest(k, answer[r].version)'
    BY <1>7, <1>8, <1>9, <1>10
  <1> QED
    BY <1>1, <1>2, <1>3, <1>4, <1>11 DEF Fresh, Behind, Settled

\* A step that delivers nothing either.
LEMMA QuietKeeps ==
    ASSUME Locals, Answers, Histories, Fresh, Histories', Answers', Locals',
           latest' = latest, raced' = raced,
           \A k \in Call : version[k] <= version'[k] /\ (cache'[k] = cache[k] \/ cache'[k] = None),
           \A q \in Request :
              /\ call'[q] # None => call'[q] = call[q] /\ since'[q] = since[q]
              /\ answer'[q] # None => answer'[q] = answer[q]
              /\ pc'[q] \in {"forwarding", "collecting", "body"} => pc'[q] = pc[q]
              /\ pc'[q] = "body" => outcome'[q] = outcome[q]
    PROVE  Fresh'
  <1>1. \A k \in Call :
           /\ latest'[k] <= version[k] /\ latest[k] <= latest'[k]
           /\ k \notin raced /\ cache[k] # None => latest'[k] <= cache[k].version
    BY DEF Fresh, Behind, Settled, Newest, Histories
  <1>2. \A q \in Request : \A k \in Call \ raced :
           pc[q] = "collecting" /\ call[q] = k => latest'[k] <= answer[q].version
    BY DEF Fresh, Behind, Settled, Newest
  <1> QED
    BY <1>1, <1>2, CalmKeeps

\* A step by which a handler ends without an answer, or goes on to send one.
LEMMA QuietSteps ==
    ASSUME Locals, Answers, Histories, Fresh, Histories', Answers', Locals', NEW r \in Request,
           \/ Unrouted(r) \/ Refuse(r) \/ RefuseBudget(r) \/ Notified(r) \/ Disconnect(r)
           \/ Block(r) \/ Unavailable(r) \/ Break(r) \/ Warned(r) \/ AuditBinary(r)
           \/ AuditFails(r) \/ StreamBreaks(r)
    PROVE  Fresh'
  <1>1. UNCHANGED <<latest, raced, since, version, cache>>
    BY DEF Unrouted, Refuse, RefuseBudget, Notified, Disconnect, Block, Unavailable, Break, Warned,
           AuditBinary, AuditFails, StreamBreaks, history
  <1>2. (answer' = answer /\ \E p \in {"notifying", "auditing", "streaming"} : Goto(r, p))
        \/ \E how : Finish(r, how)
    BY DEF Unrouted, Refuse, RefuseBudget, Notified, Disconnect, Block, Unavailable, Break, Warned,
           AuditBinary, AuditFails, StreamBreaks
  <1>3. \A q \in Request :
           /\ call'[q] # None => call'[q] = call[q] /\ since'[q] = since[q]
           /\ answer'[q] # None => answer'[q] = answer[q]
           /\ pc'[q] \in {"forwarding", "collecting", "body"} => pc'[q] = pc[q]
           /\ pc'[q] = "body" => outcome'[q] = outcome[q]
    BY <1>1, <1>2 DEF Goto, Finish, Locals
  <1>4. \A k \in Call : version[k] <= version'[k] /\ cache'[k] = cache[k]
    BY <1>1 DEF Answers
  <1> QED
    BY <1>1, <1>3, <1>4, QuietKeeps

\* A step by which a handler ends with version v of the answer to its call.
LEMMA DeliveryKeeps ==
    ASSUME Locals, Answers, Histories, Fresh, Histories', Answers', Locals', NEW r \in Request,
           NEW k0 \in Call, NEW v \in Nat, NEW how,
           k0 = call[r], v <= version[k0],
           k0 \notin raced /\ cache[k0] # None => v <= cache[k0].version,
           \A q \in Request : k0 \notin raced /\ pc[q] = "collecting" /\ call[q] = k0
                              => v <= answer[q].version,
           Deliver(k0, v), Finish(r, how), UNCHANGED <<cache, version, since, raced>>
    PROVE  Fresh'
  <1>1. \A k \in Call : latest'[k] = IF k = k0 /\ v > latest[k] THEN v ELSE latest[k]
    BY DEF Deliver, Histories
  <1>2. \A k \in Call :
           /\ version[k] <= version'[k] /\ latest'[k] <= version[k] /\ latest[k] <= latest'[k]
           /\ cache'[k] = cache[k] \/ cache'[k] = None
    BY <1>1 DEF Fresh, Behind, Settled, Histories, Answers
  <1>3. \A k \in Call : k \notin raced /\ cache[k] # None => latest'[k] <= cache[k].version
    BY <1>1 DEF Fresh, Behind, Settled, Newest
  <1>4. \A q \in Request : \A k \in Call \ raced :
           pc[q] = "collecting" /\ call[q] = k => latest'[k] <= answer[q].version
    BY <1>1 DEF Fresh, Behind, Settled, Newest
  <1>5. \A q \in Request :
           /\ call'[q] # None => call'[q] = call[q] /\ since'[q] = since[q]
           /\ answer'[q] # None => answer'[q] = answer[q]
           /\ pc'[q] \in {"forwarding", "collecting", "body"} => pc'[q] = pc[q]
           /\ pc'[q] = "body" => outcome'[q] = outcome[q]
    BY DEF Finish, Locals
  <1> QED
    BY <1>2, <1>3, <1>4, <1>5, CalmKeeps

LEMMA DeliverySteps ==
    ASSUME Locals, Answers, Histories, Fresh, Histories', Answers', Locals', NEW r \in Request,
           Hit(r) \/ AuditText(r) \/ Streamed(r)
    PROVE  Fresh'
  <1>1. UNCHANGED <<cache, version, since, raced>> /\ \E how : Finish(r, how)
    BY DEF Hit, AuditText, Streamed
  <1>2. call[r] \in Call
    BY DEF Hit, AuditText, Streamed, Locals, NoCall
  <1>3. CASE Hit(r)
    <2>1. PICK v : v = cache[call[r]].version
      OBVIOUS
    <2>2. pc[r] = "body" /\ cache[call[r]] # None /\ Deliver(call[r], v)
      BY <1>3, <2>1 DEF Hit
    <2>3. v \in Nat /\ v <= version[call[r]]
      BY <1>2, <2>1, <2>2 DEF Answers, CachedAnswersAreComplete, Answer
    <2>4. \A q \in Request : ~(call[r] \notin raced /\ pc[q] = "collecting" /\ call[q] = call[r])
      BY <1>2, <2>2 DEF Fresh, Behind, Settled, Fetches
    <2> QED
      BY <1>1, <1>2, <2>1, <2>2, <2>3, <2>4, DeliveryKeeps
  <1>4. CASE AuditText(r) \/ Streamed(r)
    <2>1. PICK v : v = answer[r].version
      OBVIOUS
    <2>2. answer[r] # None /\ answer[r] \in Answer /\ Deliver(call[r], v)
      BY <1>4, <2>1 DEF AuditText, Streamed, Locals, NoAnswer
    <2>3. v \in Nat /\ v <= version[call[r]]
      BY <2>1, <2>2 DEF Answers, Answer
    <2>4. call[r] \notin raced /\ cache[call[r]] # None => v <= cache[call[r]].version
      BY <1>2, <2>1, <2>2 DEF Fresh, Behind, Settled, Newest
    <2>5. \A q \in Request : call[r] \notin raced /\ pc[q] = "collecting" /\ call[q] = call[r]
                           => v <= answer[q].version
      BY <1>2, <2>1, <2>2 DEF Fresh, Behind, Settled, Newest
    <2> QED
      BY <1>1, <1>2, <2>2, <2>3, <2>4, <2>5, DeliveryKeeps
  <1> QED
    BY <1>3, <1>4

LEMMA AdmitKeeps ==
    ASSUME Locals, Answers, Histories, Fresh, Locals', NEW r \in Request, Admit(r)
    PROVE  Fresh'
  <1>1. PICK k \in Call : call' = [call EXCEPT ![r] = k] /\ since' = [since EXCEPT ![r] = latest[k]]
    BY DEF Admit
  <1>2. UNCHANGED <<answer, cache, latest, raced, version>>
    BY DEF Admit
  <1>3. pc'[r] = "body" /\ outcome'[r] = "none" /\ answer[r] = None /\ call'[r] = k /\ since'[r] = latest[k]
    BY <1>1 DEF Admit, Arrives, Locals, NoAnswer, Histories
  <1>4. \A q \in Request : q # r => pc'[q] = pc[q] /\ call'[q] = call[q] /\ outcome'[q] = outcome[q]
                                  /\ since'[q] = since[q]
    BY <1>1 DEF Admit, Locals, Histories
  <1>5. \A j \in Call : \A v : Newest(j, v) => Newest(j, v)'
    BY <1>2, <1>3, <1>4 DEF Newest
  <1>6. \A q \in Request : Fetches(q)' => Fetches(q) /\ q # r /\ call'[q] = call[q] /\ pc'[q] = pc[q]
    BY <1>3, <1>4 DEF Fetches
  <1>7. \A q \in Request : call'[q] # None => since'[q] <= latest'[call'[q]]
    BY <1>2, <1>3, <1>4 DEF Fresh, Behind, Settled, Histories
  <1>8. \A q \in Request : /\ answer'[q] # None => since'[q] <= answer'[q].version
                           /\ pc'[q] = "body" => outcome'[q] = "none"
    BY <1>2, <1>3, <1>4 DEF Fresh, Behind, Settled
  <1>9. \A j \in Call \ raced :
           /\ \A p, q \in Request : Fetches(p)' /\ call'[p] = j /\ Fetches(q)' /\ call'[q] = j => p = q
           /\ \A q \in Request : Fetches(q)' /\ call'[q] = j => cache[j] = None
    BY <1>6 DEF Fresh, Behind, Settled
  <1>10. \A j \in Call \ raced : cache[j] # None => Newest(j, cache[j].version)'
    BY <1>2, <1>5 DEF Fresh, Behind, Settled, Newest
  <1>11. \A j \in Call \ raced : \A q \in Request :
           pc'[q] = "collecting" /\ call'[q] = j => Newest(j, answer[q].version)'
    BY <1>2, <1>3, <1>4, <1>5 DEF Fresh, Behind, Settled, Newest
  <1>12. \A j \in Call : latest'[j] <= version'[j]
    BY <1>2 DEF Fresh, Behind, Settled
  <1>13. \A j \in Call \ raced' :
            /\ \A p, q \in Request : Fetches(p)' /\ call'[p] = j /\ Fetches(q)' /\ call'[q] = j => p = q
            /\ \A q \in Request : Fetches(q)' /\ call'[q] = j => cache'[j] = None
            /\ cache'[j] # None => Newest(j, cache[j].version)'
            /\ \A q \in Request :
                  pc'[q] = "collecting" /\ call'[q] = j => Newest(j, answer[q].version)'
    BY <1>2, <1>9, <1>10, <1>11
  <1>14. \A q \in Request : Behind(q)'
    BY <1>7, <1>8 DEF Behind
  <1>15. \A j \in (Call \ raced)' : Settled(j)'
    BY <1>13 DEF Settled
  <1> QED
    BY <1>12, <1>14, <1>15 DEF Fresh

LEMMA MissKeeps ==
    ASSUME Locals, Answers, Histories, Fresh, NEW r \in Request, Miss(r)
    PROVE  Fresh'
  <1>1. UNCHANGED <<call, outcome, answer, cache, latest, since, version>>
    BY DEF Miss, Goto
  <1>2. pc'[r] = "forwarding" /\ \A q \in Request : q # r => pc'[q] = pc[q]
    BY DEF Miss, Goto, Locals
  <1>3. raced \subseteq raced' /\ cache[call[r]] = None
    BY DEF Miss
  <1>4. call[r] \notin raced' => \A q \in Request : ~(Fetches(q) /\ call[q] = call[r])
    BY DEF Miss, Fetching, Fetches
  <1>5. \A j \in Call : \A v : Newest(j, v) => Newest(j, v)'
    BY <1>1 DEF Newest
  <1>6. \A q \in Request : (Fetches(q)' => Fetches(q) \/ q = r)
                          /\ (pc'[q] \in {"collecting", "body"} => pc'[q] = pc[q])
    BY <1>2 DEF Fetches
  <1>7. \A j \in Call \ raced' :
           /\ \A p, q \in Request : Fetches(p)' /\ call[p] = j /\ Fetches(q)' /\ call[q] = j => p = q
           /\ \A q \in Request : Fetches(q)' /\ call[q] = j => cache[j] = None
    BY <1>3, <1>4, <1>6 DEF Fresh, Behind, Settled
  <1>8. \A j \in Call \ raced' : cache[j] # None => Newest(j, cache[j].version)'
    BY <1>1, <1>3, <1>5 DEF Fresh, Behind, Settled, Newest
  <1>9. \A j \in Call \ raced' : \A q \in Request :
           pc'[q] = "collecting" /\ call[q] = j => Newest(j, answer[q].version)'
    BY <1>1, <1>3, <1>6 DEF Fresh, Behind, Settled, Newest
  <1> QED
    BY <1>1, <1>6, <1>7, <1>8, <1>9 DEF Fresh, Behind, Settled

LEMMA RespondKeeps ==
    ASSUME Locals, Answers, Histories, Fresh, NEW r \in Request, Hears(r)
    PROVE  Fresh'
  <1>1. /\ UNCHANGED <<call, outcome, cache, latest, since, raced, version>>
        /\ pc[r] = "forwarding" /\ Fetches(r)
    BY DEF Hears, RespondText, RespondBinary, Responds, Goto, history, Fetches
  <1>2. PICK k \in Call : call[r] = k
    BY <1>1 DEF Locals, NoCall
  <1>3. pc'[r] \in {"collecting", "auditing"} /\ answer'[r].version = version[k]
    BY <1>2, Shapes DEF Goto, Locals
  <1>4. \A q \in Request : q # r => pc'[q] = pc[q] /\ answer'[q] = answer[q]
    BY OnlyMine
  <1>5. \A j \in Call : \A v : j # k /\ Newest(j, v) => Newest(j, v)'
    BY <1>1, <1>2, <1>4 DEF Newest
  <1>6. Newest(k, version[k])'
    <2>1. \A q \in Request : call[q] = k /\ answer'[q] # None => answer'[q].version <= version[k]
      <3>1. version[k] <= version[k]
        BY <1>2 DEF Answers
      <3> QED
        BY <1>2, <1>3, <1>4, <3>1 DEF Answers
    <2> QED
      BY <1>1, <2>1 DEF Newest, Fresh, Behind, Settled
  <1>7. since[r] <= version[k]
    <2>1. since[r] <= latest[k] /\ latest[k] <= version[k]
      BY <1>2, PipelineAssumption DEF Fresh, Behind, Settled, PipelineAssumption
    <2>2. since[r] \in Nat /\ latest[k] \in Nat /\ version[k] \in Nat
      BY DEF Histories, Answers
    <2> QED
      BY <2>1, <2>2
  <1>8. k \notin raced => cache[k] = None /\ \A q \in Request : Fetches(q) /\ call[q] = k => q = r
    BY <1>1, <1>2 DEF Fresh, Behind, Settled
  <1>9. \A q \in Request : (Fetches(q)' => Fetches(q)) /\ (pc'[q] = "body" => pc[q] = "body")
    BY <1>1, <1>3, <1>4 DEF Fetches
  <1>10. \A q \in Request : answer'[q] # None => since[q] <= answer'[q].version
    BY <1>3, <1>4, <1>7 DEF Fresh, Behind, Settled
  <1>11. \A j \in Call \ raced : cache[j] # None => Newest(j, cache[j].version)'
    <2>1. SUFFICES ASSUME NEW j \in Call \ raced, cache[j] # None PROVE Newest(j, cache[j].version)'
      OBVIOUS
    <2>2. PICK v : v = cache[j].version
      OBVIOUS
    <2>3. j # k /\ Newest(j, v)
      BY <1>8, <2>1, <2>2 DEF Fresh, Behind, Settled
    <2>4. Newest(j, v)'
      BY <1>5, <2>3
    <2> QED
      BY <1>1, <2>2, <2>4 DEF Newest
  <1>12. \A j \in Call \ raced : \A q \in Request :
           pc'[q] = "collecting" /\ call[q] = j => Newest(j, answer[q].version)'
    <2>1. SUFFICES ASSUME NEW j \in Call \ raced, NEW q \in Request, pc'[q] = "collecting", call[q] = j
                   PROVE  Newest(j, answer[q].version)'
      OBVIOUS
    <2>2. CASE q = r
      <3>1. j = k /\ answer'[q].version = version[k] /\ version' = version
        BY <1>1, <1>2, <1>3, <2>1, <2>2
      <3> QED
        BY <1>6, <3>1 DEF Newest
    <2>3. CASE q # r
      <3>1. pc[q] = "collecting" /\ answer'[q] = answer[q] /\ Fetches(q)
        BY <1>4, <2>1, <2>3 DEF Fetches
      <3>2. PICK v : v = answer[q].version
        OBVIOUS
      <3>3. j # k /\ Newest(j, v)
        BY <1>8, <2>1, <2>3, <3>1, <3>2 DEF Fresh, Behind, Settled
      <3>4. Newest(j, v)'
        BY <1>5, <3>3
      <3> QED
        BY <3>1, <3>2, <3>4 DEF Newest
    <2> QED
      BY <2>2, <2>3
  <1>13. \A j \in Call \ raced :
           /\ \A p, q \in Request : Fetches(p)' /\ call[p] = j /\ Fetches(q)' /\ call[q] = j => p = q
           /\ \A q \in Request : Fetches(q)' /\ call[q] = j => cache[j] = None
    BY <1>9 DEF Fresh, Behind, Settled
  <1>14. \A q \in Request : /\ call[q] # None => since[q] <= latest[call[q]]
                            /\ pc'[q] = "body" => outcome[q] = "none"
    BY <1>9 DEF Fresh, Behind, Settled
  <1>15. \A j \in Call : latest[j] <= version[j]
    BY DEF Fresh, Behind, Settled
  <1> QED
    BY <1>1, <1>10, <1>11, <1>12, <1>13, <1>14, <1>15 DEF Fresh, Behind, Settled

LEMMA CollectedKeeps ==
    ASSUME Locals, Answers, Histories, Fresh, NEW r \in Request, Collected(r)
    PROVE  Fresh'
  <1>1. UNCHANGED <<call, outcome, latest, since, raced, version>>
    BY DEF Collected, Goto, history
  <1>2. pc[r] = "collecting" /\ pc'[r] \in {"auditing", "warning"}
    BY DEF Collected, Goto, Locals
  <1>3. \A q \in Request : q # r => pc'[q] = pc[q]
    BY OnlyMine DEF Goes
  <1>4. PICK k \in Call : call[r] = k
    BY <1>2 DEF Locals, NoCall
  <1>5. cache'[k] = cache[k] \/ cache'[k].version = answer[r].version
    <2>1. answer[r] \in Answer /\ call[r] \in Call
      BY <1>2 DEF Locals, NoCall, NoAnswer
    <2>2. cache' = cache \/ cache' = [cache EXCEPT ![k] = Whole(answer[r])]
      BY <1>4 DEF Collected, Fill, Whole
    <2> QED
      BY <1>4, <2>1, <2>2, WholeAnswer DEF Answers
  <1>6. \A j \in Call : j # k => cache'[j] = cache[j]
    BY <1>4 DEF Collected, Fill, Answers
  <1>16. \A q \in Request : /\ answer'[q] = None <=> answer[q] = None
                            /\ answer[q] # None => answer'[q].version = answer[q].version
    <2>1. answer[r] \in Answer
      BY <1>2 DEF Locals, NoAnswer
    <2>2. \A q \in Request : answer'[q] = IF q = r THEN Whole(answer[r]) ELSE answer[q]
      BY Shapes DEF Locals
    <2> QED
      BY <2>1, <2>2, WholeAnswer, PipelineAssumption DEF PipelineAssumption
  <1>7. \A j \in Call : \A v : Newest(j, v) => Newest(j, v)'
    BY <1>1, <1>16 DEF Newest
  <1>8. \A q \in Request : /\ Fetches(q)' => Fetches(q) /\ q # r
                           /\ pc'[q] \in {"body", "collecting"} => pc[q] = pc'[q]
    BY <1>2, <1>3 DEF Fetches
  <1>9. \A j \in Call \ raced :
           /\ \A p, q \in Request : Fetches(p)' /\ call[p] = j /\ Fetches(q)' /\ call[q] = j => p = q
           /\ \A q \in Request : Fetches(q)' /\ call[q] = j => cache'[j] = None
    <2>1. Fetches(r)
      BY <1>2 DEF Fetches
    <2>2. ASSUME NEW j \in Call \ raced, NEW q \in Request, Fetches(q)', call[q] = j
          PROVE  Fetches(q) /\ cache'[j] = None
      <3>1. Fetches(q) /\ q # r
        BY <1>8, <2>2
      <3>2. Settled(j)
        BY DEF Fresh
      <3>3. j # k /\ cache[j] = None
        BY <1>4, <2>1, <2>2, <3>1, <3>2 DEF Settled
      <3> QED
        BY <1>6, <3>1, <3>3
    <2>3. ASSUME NEW j \in Call \ raced, NEW q \in Request, NEW p \in Request,
                 Fetches(q)', call[q] = j, Fetches(p)', call[p] = j
          PROVE  p = q
      <3>1. Fetches(p) /\ Fetches(q) /\ Settled(j)
        BY <2>2, <2>3 DEF Fresh
      <3> QED
        BY <2>3, <3>1 DEF Settled
    <2> QED
      BY <2>2, <2>3
  <1>10. \A j \in Call \ raced : cache'[j] # None => Newest(j, cache[j].version)'
    <2>1. SUFFICES ASSUME NEW j \in Call \ raced, cache'[j] # None PROVE Newest(j, cache[j].version)'
      OBVIOUS
    <2>2. PICK v : v = cache'[j].version
      OBVIOUS
    <2>3. Newest(j, v)
      <3>1. CASE cache'[j] = cache[j]
        BY <2>1, <2>2, <3>1 DEF Fresh, Behind, Settled
      <3>2. CASE j = k /\ cache'[j].version = answer[r].version
        BY <1>2, <1>4, <2>1, <2>2, <3>2 DEF Fresh, Behind, Settled
      <3> QED
        BY <1>5, <1>6, <3>1, <3>2
    <2>4. Newest(j, v)'
      BY <1>7, <2>3
    <2> QED
      BY <2>2, <2>4 DEF Newest
  <1>11. \A j \in Call \ raced : \A q \in Request :
           pc'[q] = "collecting" /\ call[q] = j => Newest(j, answer[q].version)'
    <2>1. SUFFICES ASSUME NEW j \in Call \ raced, NEW q \in Request, pc'[q] = "collecting", call[q] = j
                   PROVE  Newest(j, answer[q].version)'
      OBVIOUS
    <2>2. PICK v : v = answer[q].version
      OBVIOUS
    <2>3. pc[q] = "collecting" /\ Settled(j)
      BY <1>8, <2>1 DEF Fresh
    <2>4. Newest(j, v)'
      BY <1>1, <1>7, <2>1, <2>2, <2>3 DEF Settled
    <2>5. answer'[q].version = v
      BY <1>16, <2>2, <2>3 DEF Locals, NoAnswer
    <2> QED
      BY <2>4, <2>5 DEF Newest
  <1>12. \A q \in Request : Behind(q)'
    <2>1. SUFFICES ASSUME NEW q \in Request PROVE Behind(q)'
      OBVIOUS
    <2>2. Behind(q) /\ (pc'[q] = "body" => pc[q] = "body")
      BY <1>8 DEF Fresh
    <2> QED
      BY <1>1, <1>16, <2>2 DEF Behind
  <1>13. \A j \in Call \ raced' :
            /\ \A p, q \in Request : Fetches(p)' /\ call'[p] = j /\ Fetches(q)' /\ call'[q] = j => p = q
            /\ \A q \in Request : Fetches(q)' /\ call'[q] = j => cache'[j] = None
            /\ cache'[j] # None => Newest(j, cache[j].version)'
            /\ \A q \in Request :
                  pc'[q] = "collecting" /\ call'[q] = j => Newest(j, answer[q].version)'
    BY <1>1, <1>9, <1>10, <1>11
  <1>14. \A j \in Call : latest'[j] <= version'[j]
    BY <1>1 DEF Fresh, Behind, Settled
  <1>15. \A j \in (Call \ raced)' : Settled(j)'
    BY <1>13 DEF Settled
  <1> QED
    BY <1>12, <1>14, <1>15 DEF Fresh

LEMMA StepFresh ==
    ASSUME Ledgers, Ledgers', Fresh, [Next]_vars
    PROVE  Fresh'
  <1>0. Locals /\ Answers /\ Histories /\ Locals' /\ Answers' /\ Histories'
    BY DEF Ledgers
  <1>1. ASSUME NEW r \in Request, Quits(r) \/ Goes(r) \/ Hears(r) \/ Collected(r) \/ Admit(r) PROVE Fresh'
    BY <1>0, <1>1, QuietSteps, DeliverySteps, AdmitKeeps, MissKeeps, RespondKeeps, CollectedKeeps
       DEF Quits, Goes
  <1>2. CASE Evict \/ Change \/ UNCHANGED vars
    <2>1. UNCHANGED <<pc, call, answer, outcome, latest, since, raced>>
      BY <1>2 DEF Evict, Change, vars, memory, ghosts, history
    <2>2. \A k \in Call : cache'[k] = cache[k] \/ cache'[k] = None
      BY <1>0, <1>2 DEF Evict, Change, vars, memory, Answers
    <2>3. \A k \in Call : version[k] <= version'[k]
      BY <1>0, <1>2 DEF Evict, Change, vars, Answers
    <2> QED
      BY <1>0, <2>1, <2>2, <2>3, QuietKeeps
  <1>3. CASE Restart
    <2>1. UNCHANGED <<latest, since, raced, version>>
      BY <1>3 DEF Restart, history
    <2>2. /\ \A k \in Call : cache'[k] = None /\ version[k] <= version'[k]
          /\ \A q \in Request : call'[q] = None /\ answer'[q] = None /\ pc'[q] = "idle"
      BY <1>0, <1>3, <2>1 DEF Restart, Answers
    <2> QED
      BY <1>0, <2>1, <2>2, QuietKeeps
  <1> QED
    BY <1>1, <1>2, <1>3, Steps

(* Nobody gets an answer that is older than what was delivered when its    *)
(* request arrived, unless two requests have fetched this call at a time:  *)
(* the cache may be filled, emptied and filled again in between.           *)
THEOREM ReadsForward == Spec => ReadsMoveForward
  <1> DEFINE Forward ==
        \A r \in Request :
          pc[r] \in {"body", "auditing", "streaming"} /\ outcome'[r] \in {"hit", "answered"}
          /\ call[r] \notin raced
          => LET v == IF answer[r] = None THEN cache[call[r]].version ELSE answer[r].version
             IN  v >= since[r]
  <1>1. Init => Fresh
    BY PipelineAssumption DEF PipelineAssumption, Init, Fresh, Behind, Settled, Fetches
  <1>2. Ledgers /\ Ledgers' /\ Fresh /\ [Next]_vars => Fresh'
    BY StepFresh
  <1>3. Ledgers /\ Fresh /\ [Next]_vars => [Forward]_vars
    <2> SUFFICES ASSUME Ledgers, Fresh, Next, NEW r \in Request,
                        pc[r] \in {"body", "auditing", "streaming"},
                        outcome'[r] \in {"hit", "answered"}, call[r] \notin raced
                 PROVE  (IF answer[r] = None THEN cache[call[r]].version ELSE answer[r].version) >= since[r]
      BY DEF vars
    <2>0. Locals /\ Answers /\ Histories
      BY DEF Ledgers
    <2>1. CASE answer[r] # None
      <3>1. since[r] <= answer[r].version /\ answer[r] \in Answer /\ since[r] \in Nat
        BY <2>0, <2>1 DEF Fresh, Behind, Settled, Locals, Histories
      <3> QED
        BY <2>1, <3>1 DEF Answer
    <2>2. CASE answer[r] = None
      <3>1. pc[r] = "body" /\ outcome[r] = "none" /\ call[r] \in Call
        BY <2>0, <2>2 DEF Fresh, Behind, Settled, Locals, NoAnswer, NoCall
      <3>2. Hit(r)
        <4>1. ASSUME NEW q \in Request, q # r,
                     Quits(q) \/ Goes(q) \/ Hears(q) \/ Collected(q) \/ Admit(q)
              PROVE  outcome'[r] = outcome[r]
          BY <2>0, <4>1, Shapes DEF Finish, Goto, Admit, Locals
        <4>2. ASSUME Goes(r) \/ Hears(r) \/ Collected(r) PROVE outcome'[r] = outcome[r]
          BY <4>2, Shapes DEF Goto
        <4>3. ~Admit(r)
          BY <3>1 DEF Admit, Arrives
        <4>4. CASE Evict \/ Change \/ Restart
          BY <2>0, <3>1, <4>4 DEF Evict, Change, Restart, memory
        <4>5. CASE Quits(r)
          BY <2>0, <3>1, <4>5 DEF Quits, Unrouted, Refuse, Arrives, Notified, Disconnect, Block, Unavailable,
             Break, AuditText, AuditFails, Streamed, StreamBreaks, Finish, Locals
        <4> QED
          BY <3>1, <4>1, <4>2, <4>3, <4>4, <4>5, Steps
      <3>3. cache[call[r]] # None
        BY <3>2 DEF Hit
      <3>4. since[r] <= latest[call[r]] /\ latest[call[r]] <= cache[call[r]].version
        BY <3>1, <3>3, PipelineAssumption DEF Fresh, Behind, Settled, Newest, PipelineAssumption
      <3>5. since[r] \in Nat /\ latest[call[r]] \in Nat /\ cache[call[r]].version \in Nat
        BY <2>0, <3>1, <3>3 DEF Histories, Answers, Answer
      <3> QED
        BY <2>2, <3>4, <3>5
    <2> QED
      BY <2>1, <2>2
  <1>4. Spec => []Fresh
    BY <1>1, <1>2, AlwaysLedgers, PTL DEF Spec
  <1> QED
    BY <1>3, <1>4, AlwaysLedgers, PTL DEF Spec, ReadsMoveForward

================================================================================
