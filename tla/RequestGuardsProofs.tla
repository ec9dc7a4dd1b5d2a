-------------------------- MODULE RequestGuardsProofs --------------------------
(***************************************************************************)
(* Proofs about RequestGuards, for any services, keys, rules, settings of  *)
(* the DLP guard, prices and fees, any number of tokens and any time.      *)
(***************************************************************************)
EXTENDS RequestGuards, TLAPS

-----------------------------------------------------------------------------
(* Who calls. *)

\* A token names a service.
LEMMA LiveNames ==
  ASSUME tokens \subseteq Token, NEW t, Live(t)
  PROVE  t \in tokens /\ t.sub \in Service
  BY DEF Live, Token

LEMMA IdentityType ==
  ASSUME tokens \subseteq Token, NEW p \in Presented
  PROVE  Identity(p) \in Service \cup {None}
<1>1. p.claimed \in Service \cup {None} /\ p.route \in {"explicit", "transparent"}
  BY DEF Presented
<1>2. Authenticate(p.claimed, p.token) \in Service \cup {None}
  BY <1>1, LiveNames, GuardAssumption DEF Authenticate
<1>3. Nobody[p.route] \in Service
  BY <1>1, GuardAssumption DEF Nobody
<1>4. QED
  BY <1>1, <1>2, <1>3 DEF Identity

\* authenticate answers with s exactly for the credentials of s.
LEMMA Authenticates ==
  ASSUME NEW p, NEW s \in Service
  PROVE  Authenticate(p.claimed, p.token) = s <=> Proves(p, s)
<1>0. None \notin Service /\ DOMAIN StaticKey \subseteq Service
  BY GuardAssumption
<1>1. CASE p.claimed \in DOMAIN StaticKey /\ p.token = StaticKey[p.claimed]
  <2>1. Authenticate(p.claimed, p.token) = p.claimed
    BY <1>1 DEF Authenticate
  <2>2. Proves(p, s) <=> p.claimed = s
    BY <1>0, <1>1 DEF Proves
  <2>3. QED
    BY <2>1, <2>2
<1>2. CASE /\ ~ (p.claimed \in DOMAIN StaticKey /\ p.token = StaticKey[p.claimed])
           /\ Live(p.token) /\ p.claimed \in {None, p.token.sub}
  <2>1. Authenticate(p.claimed, p.token) = p.token.sub
    BY <1>2, Zenon DEF Authenticate
  <2>2. Proves(p, s) <=> p.token.sub = s
    BY <1>2 DEF Proves, Live
  <2>3. QED
    BY <2>1, <2>2
<1>3. CASE /\ ~ (p.claimed \in DOMAIN StaticKey /\ p.token = StaticKey[p.claimed])
           /\ ~ (Live(p.token) /\ p.claimed \in {None, p.token.sub})
  <2>1. Authenticate(p.claimed, p.token) = None
    BY <1>3, Zenon DEF Authenticate
  <2>2. ~ Proves(p, s)
    BY <1>3 DEF Proves, Live
  <2>3. QED
    BY <1>0, <2>1, <2>2
<1>4. QED
  BY <1>1, <1>2, <1>3

-----------------------------------------------------------------------------
(* What goes out, and what comes back. *)

\* Replacing data of some kinds makes a body of a body.
LEMMA ReplacedIsBody ==
  ASSUME NEW b \in Body, NEW kinds \in SUBSET Kind
  PROVE  /\ Replaced(b, kinds) \in Body
         /\ Replaced(b, kinds).kinds = (b.kinds \ kinds) \cup (IF b.hidden \cap kinds = {} THEN {} ELSE {"card"})
         /\ Replaced(b, kinds).hidden = b.hidden \ kinds
<1>1. b \in [text : BOOLEAN, kinds : SUBSET Kind, hidden : SUBSET (Kind \ {"card"})]
  BY DEF Body
<1>2. PICK k \in SUBSET Kind, h \in SUBSET (Kind \ {"card"}) :
         /\ k = (b.kinds \ kinds) \cup (IF b.hidden \cap kinds = {} THEN {} ELSE {"card"})
         /\ h = b.hidden \ kinds
  BY <1>1 DEF Kind
<1>3. Replaced(b, kinds) = [b EXCEPT !.kinds = k, !.hidden = h]
  BY <1>2 DEF Replaced
<1>4. Replaced(b, kinds) = [text |-> b.text, kinds |-> k, hidden |-> h]
  BY <1>1, <1>3
<1>5. h \subseteq IF b.text THEN k ELSE {}
  BY <1>2 DEF Body
<1>6. QED
  BY <1>1, <1>2, <1>4, <1>5 DEF Body

\* Of a text that leaves a masking guard, or a blocking one that has found nothing, the
\* guard looks for nothing but a card that replaced data has hidden.
LEMMA SanitizedIsClean ==
  ASSUME NEW g \in GuardSettings, NEW b \in Body
  PROVE  /\ Sanitized(g, b) \in Body
         /\ b.text /\ (g.mode = "mask" \/ ~Found(g, b)) =>
              /\ Sanitized(g, b).kinds \cap Sought(g) \subseteq {"card"}
              /\ Sanitized(g, b).kinds \cap Sought(g) # {} =>
                   g.mode = "mask" /\ \E k \in b.hidden : k \notin Sanitized(g, b).kinds
<1>1. Sought(g) \subseteq {"card", "ssn", "email"} /\ b.kinds \subseteq Kind /\ b.hidden \subseteq Kind \ {"card"}
  BY DEF Sought, Kind, Body
<1>2. CASE ~ (Found(g, b) /\ g.mode = "mask")
  <2>1. Sanitized(g, b) = b
    BY <1>2 DEF Sanitized
  <2>2. QED
    BY <1>2, <2>1 DEF Found
<1>3. CASE Found(g, b) /\ g.mode = "mask"
  <2>1. PICK told \in SUBSET Kind : told = {"ssn", "email"} \cap Sought(g)
    BY DEF Kind
  <2>2. PICK first : first = Replaced(b, Redacted)
    OBVIOUS
  <2>3. Redacted \in SUBSET Kind
    BY DEF Redacted, Kind
  <2>4. /\ first \in Body
        /\ first.kinds = (b.kinds \ Redacted) \cup (IF b.hidden \cap Redacted = {} THEN {} ELSE {"card"})
        /\ first.hidden = b.hidden \ Redacted
    BY <2>2, <2>3, ReplacedIsBody
  <2>5. Sanitized(g, b) = Replaced(first, told)
    BY <1>3, <2>1, <2>2 DEF Sanitized
  <2>6. PICK out \in Body :
          /\ out = Sanitized(g, b)
          /\ out.kinds = (first.kinds \ told) \cup (IF first.hidden \cap told = {} THEN {} ELSE {"card"})
    BY <2>4, <2>5, ReplacedIsBody
  <2>7. out.kinds \cap Sought(g) \subseteq {"card"}
    BY <1>1, <2>1, <2>6
  <2>8. ASSUME "card" \in out.kinds PROVE \E k \in b.hidden : k \notin out.kinds
    <3>1. CASE first.hidden \cap told # {}
      BY <1>1, <2>1, <2>4, <2>6, <3>1 DEF Redacted
    <3>2. CASE first.hidden \cap told = {}
      <4>1. "entropy" \in b.hidden
        BY <1>1, <2>4, <2>6, <2>8, <3>2 DEF Redacted
      <4>2. "entropy" \notin out.kinds
        BY <2>4, <2>6, <3>2 DEF Redacted
      <4>3. QED
        BY <4>1, <4>2
    <3>3. QED
      BY <3>1, <3>2
  <2>9. QED
    BY <1>3, <2>6, <2>7, <2>8
<1>4. QED
  BY <1>2, <1>3

Credential(p) == [name |-> p.header, spelling |-> p.spelling, value |-> "secret"]

\* The credential is among the headers, and the other ones are the caller's.
LEMMA CredentialWins ==
  ASSUME NEW inbound \in SUBSET [name : HeaderName, spelling : {"lower"}, value : {"caller"}],
         NEW p \in [header : HeaderName \ InternalName, spelling : {"lower", "configured"}]
  PROVE  /\ Outbound(inbound, p) \in SUBSET Header
         /\ Credential(p) \in Outbound(inbound, p)
         /\ \A h \in Outbound(inbound, p) \ {Credential(p)} :
               /\ h.name \notin InternalName
               /\ h.value = "caller"
               /\ h.name = p.header => h.spelling # p.spelling
<1>. DEFINE kept == {h \in inbound : h.name \notin InternalName /\ ~ (h.name = p.header /\ h.spelling = p.spelling)}
<1>1. Outbound(inbound, p) = kept \cup {Credential(p)}
  BY DEF Outbound, Credential
<1>2. Credential(p) \in Header
  BY DEF Header, Credential
<1>3. /\ kept \subseteq Header
      /\ \A h \in kept : /\ h.name \notin InternalName
                         /\ h.value = "caller"
                         /\ h.name = p.header => h.spelling # p.spelling
  BY DEF Header
<1>. HIDE DEF kept
<1>4. Outbound(inbound, p) \in SUBSET Header /\ Credential(p) \in Outbound(inbound, p)
  BY <1>1, <1>2, <1>3
<1>5. ASSUME NEW h \in Outbound(inbound, p) \ {Credential(p)}
      PROVE  /\ h.name \notin InternalName
             /\ h.value = "caller"
             /\ h.name = p.header => h.spelling # p.spelling
  <2>1. h \in kept
    BY <1>1
  <2>2. QED
    BY <1>3, <2>1
<1>6. QED
  BY <1>4, <1>5

\* An answer costs at least MinCost, also one that reports no tokens.
LEMMA TokensCost ==
  ASSUME NEW m \in DOMAIN Price, NEW in \in Usage, NEW out \in Usage
  PROVE  TokenCost(m, in, out) \in Nat /\ TokenCost(m, in, out) > 0
<1>1. Price[m].in \in Nat /\ Price[m].out \in Nat /\ in \in Nat /\ out \in Nat /\ MinCost \in Nat \ {0}
  BY GuardAssumption
<1>2. \A a, b, c, d \in Nat : a * b + c * d \in Nat
  OBVIOUS
<1>3. PICK c \in Nat : c = in * Price[m].in + out * Price[m].out
  BY <1>1, <1>2
<1>4. TokenCost(m, in, out) = IF c > MinCost THEN c ELSE MinCost
  BY <1>3 DEF TokenCost
<1>5. QED
  BY <1>1, <1>4

-----------------------------------------------------------------------------
(* The invariant: types, and what leaves the proxy is fit to. *)

IInv == TypeOK /\ LeavesFit

LEMMA InitIInv == Init => IInv
  BY DEF Init, IInv, TypeOK, LeavesFit, BodyIsClean, CredentialGoesOut, AnswerCosts

LEMMA StepIInv ==
  ASSUME IInv, [Next]_vars
  PROVE  IInv'
<1>. USE DEF IInv
<1>0. tokens \subseteq Token /\ clock \in Nat /\ rules \in [Service -> Rule \cup {None}]
  BY DEF TypeOK
\* What concerns no request in hand, and what a step must show of a new one.
<1>1. ASSUME req' = req, clock' \in Nat, tokens' \subseteq Token, rules' \in [Service -> Rule \cup {None}]
      PROVE  IInv'
  BY <1>1 DEF TypeOK, LeavesFit, BodyIsClean, CredentialGoesOut, AnswerCosts
<1>2. CASE Issue
  <2>1. PICK s \in Service, ttl \in Ttl : tokens' = tokens \cup {[sub |-> s, exp |-> clock + ttl]}
    BY <1>2 DEF Issue
  <2>2. clock + ttl \in Int
    BY <1>0, GuardAssumption
  <2>3. [sub |-> s, exp |-> clock + ttl] \in Token
    BY <2>2 DEF Token
  <2>4. QED
    BY <1>0, <1>1, <1>2, <2>1, <2>3 DEF Issue
<1>3. CASE SetRule
  BY <1>0, <1>1, <1>3 DEF SetRule
<1>4. CASE Tick
  BY <1>0, <1>1, <1>4 DEF Tick
<1>5. CASE Arrive
  <2>1. PICK p \in Presented, t \in Target :
           req' = [stage     |-> IF Identity(p) = None THEN "unauthenticated"
                                 ELSE IF Allowed(Identity(p), t) THEN "body" ELSE "denied",
                   presented |-> p,
                   caller    |-> Identity(p)]
    BY <1>5 DEF Arrive
  <2>2. Identity(p) \in Service \cup {None}
    BY <1>0, IdentityType
  <2>3. p \in [route : {"explicit", "transparent"}, claimed : Service \cup {None},
               token : Token \cup StaticKeys \cup {None}]
    BY <1>0 DEF Presented
  <2>4. PICK st \in {"unauthenticated", "denied", "body"}, c \in Service \cup {None} :
           req' = [stage |-> st, presented |-> p, caller |-> c]
    BY <2>1, <2>2
  <2>5. req' \in [stage : {"unauthenticated", "denied", "body"}, caller : Service \cup {None},
                  presented : [route : {"explicit", "transparent"}, claimed : Service \cup {None},
                               token : Token \cup StaticKeys \cup {None}]]
    BY <2>3, <2>4
  <2>6. TypeOK'
    BY <1>0, <1>5, <2>5 DEF TypeOK, Arrive
  <2>7. LeavesFit'
    BY <2>4 DEF LeavesFit, BodyIsClean, CredentialGoesOut, AnswerCosts
  <2>8. QED
    BY <2>6, <2>7
<1>6. CASE Inspect
  <2>1. PICK g \in Guard, b \in Body :
           req' = IF g.mode = "block" /\ Found(g, b) THEN [stage |-> "blocked"]
                  ELSE [stage |-> "inspected", guard |-> g, raw |-> b, body |-> Sanitized(g, b)]
    BY <1>6 DEF Inspect
  <2>2. g \in GuardSettings /\ UNCHANGED <<clock, tokens, rules>>
    BY <1>6, GuardAssumption DEF Inspect
  <2>3. CASE g.mode = "block" /\ Found(g, b)
    <3>1. req' = [stage |-> "blocked"]
      BY <2>1, <2>3
    <3>2. QED
      BY <1>0, <2>2, <3>1 DEF TypeOK, LeavesFit, BodyIsClean, CredentialGoesOut, AnswerCosts
  <2>4. CASE ~ (g.mode = "block" /\ Found(g, b))
    <3>1. PICK out : out = Sanitized(g, b)
      OBVIOUS
    <3>2. req' = [stage |-> "inspected", guard |-> g, raw |-> b, body |-> out]
      BY <2>1, <2>4, <3>1
    <3>3. /\ out \in Body
          /\ g.mode # "audit" /\ b.text =>
               /\ out.kinds \cap Sought(g) \subseteq {"card"}
               /\ out.kinds \cap Sought(g) # {} => g.mode = "mask" /\ \E k \in b.hidden : k \notin out.kinds
      <4>1. g.mode # "audit" => g.mode = "mask" \/ ~Found(g, b)
        BY <2>2, <2>4 DEF GuardSettings
      <4>2. QED
        BY <2>2, <3>1, <4>1, SanitizedIsClean
    <3>4. TypeOK'
      BY <1>0, <2>2, <3>2, <3>3 DEF TypeOK
    <3>5. LeavesFit'
      BY <3>2, <3>3 DEF LeavesFit, BodyIsClean, CredentialGoesOut, AnswerCosts, Sought
    <3>6. QED
      BY <3>4, <3>5
  <2>5. QED
    BY <2>3, <2>4
<1>7. CASE Send
  <2>1. PICK names \in SUBSET HeaderName, header \in HeaderName \ InternalName, spelling \in {"lower", "configured"} :
           LET p       == [header |-> header, spelling |-> spelling]
               inbound == {[name |-> n, spelling |-> "lower", value |-> "caller"] : n \in names}
           IN  req' = [stage |-> "sent", profile |-> p, headers |-> Outbound(inbound, p)]
    BY <1>7 DEF Send
  <2>. DEFINE p == [header |-> header, spelling |-> spelling]
              inbound == {[name |-> n, spelling |-> "lower", value |-> "caller"] : n \in names}
              out == Outbound(inbound, p)
  <2>2. req' = [stage |-> "sent", profile |-> p, headers |-> out]
    BY <2>1
  <2>3. /\ p \in [header : HeaderName \ InternalName, spelling : {"lower", "configured"}]
        /\ inbound \in SUBSET [name : HeaderName, spelling : {"lower"}, value : {"caller"}]
    OBVIOUS
  <2>4. /\ out \in SUBSET Header
        /\ Credential(p) \in out
        /\ \A h \in out \ {Credential(p)} :
              /\ h.name \notin InternalName
              /\ h.value = "caller"
              /\ h.name = p.header => h.spelling # p.spelling
    BY <2>3, CredentialWins
  <2>. HIDE DEF p, inbound, out
  <2>5. UNCHANGED <<clock, tokens, rules>>
    BY <1>7 DEF Send
  <2>6. TypeOK'
    BY <1>0, <2>2, <2>3, <2>4, <2>5 DEF TypeOK
  <2>7. LeavesFit'
    BY <2>2, <2>4 DEF LeavesFit, BodyIsClean, CredentialGoesOut, AnswerCosts, Credential
  <2>8. QED
    BY <2>6, <2>7
<1>8. CASE Priced
  <2>1. PICK c \in Nat : req' = [stage |-> "answered", cost |-> c] /\ c > 0
    <3>1. ASSUME NEW fee \in Fee PROVE fee \in Nat /\ fee > 0
      BY GuardAssumption
    <3>2. QED
      BY <1>8, <3>1, TokensCost DEF Priced
  <2>2. UNCHANGED <<clock, tokens, rules>>
    BY <1>8 DEF Priced
  <2>3. QED
    BY <1>0, <2>1, <2>2 DEF TypeOK, LeavesFit, BodyIsClean, CredentialGoesOut, AnswerCosts
<1>9. CASE UNCHANGED vars
  BY <1>0, <1>1, <1>9 DEF vars
<1>10. QED
  BY <1>2, <1>3, <1>4, <1>5, <1>6, <1>7, <1>8, <1>9 DEF Next

LEMMA IInvariant == Spec => []IInv
  BY InitIInv, StepIInv, PTL DEF Spec

(* Tokens, rules and the request in hand keep their types, whatever is     *)
(* issued, configured or presented.                                        *)
THEOREM TypeCorrect == Spec => []TypeOK
<1>1. IInv => TypeOK
  BY DEF IInv
<1>2. QED
  BY <1>1, IInvariant, PTL

(* Whatever the settings of the DLP guard, the profiles and the prices, and *)
(* whatever data hides a card: a text that is blocked or masked goes out    *)
(* without what the guard looks for, but for a card that masking has itself *)
(* uncovered; the secret goes out once and no internal header does; no      *)
(* answer is free.                                                          *)
THEOREM OnlyFitLeaves == Spec => []LeavesFit
<1>1. IInv => LeavesFit
  BY DEF IInv
<1>2. QED
  BY <1>1, IInvariant, PTL

-----------------------------------------------------------------------------
(* What a step may do. *)

(* On the explicit route a caller passes for a service exactly with its    *)
(* static key or a token of it that has not expired, for any services,     *)
(* keys and tokens, issued at any time.                                    *)
THEOREM IdentifiesCallers == Spec => CallersAreIdentified
<1>. DEFINE Identified ==
       \A s \in Service :
          /\ req'.stage \in {"body", "denied", "unauthenticated"}
          /\ req' # req
          /\ req'.presented.route = "explicit"
          /\ req'.presented.claimed # None \/ req'.presented.token # None
          => (req'.caller = s <=> Proves(req'.presented, s))
<1>1. ASSUME Next PROVE Identified
  <2>1. CASE Arrive
    <3>1. PICK p \in Presented, st \in {"unauthenticated", "denied", "body"} :
             req' = [stage |-> st, presented |-> p, caller |-> Identity(p)]
      BY <2>1, Zenon DEF Arrive
    <3>2. req'.presented = p /\ req'.caller = Identity(p)
      BY <3>1
    <3>3. ASSUME NEW s \in Service, p.route = "explicit", p.claimed # None \/ p.token # None
          PROVE  Identity(p) = s <=> Proves(p, s)
      BY <3>3, Authenticates DEF Identity
    <3>4. QED
      BY <3>2, <3>3
  <2>2. CASE Issue \/ SetRule \/ Tick
    BY <2>2 DEF Issue, SetRule, Tick
  <2>3. CASE Inspect
    BY <2>3 DEF Inspect
  <2>4. CASE Send
    BY <2>4 DEF Send
  <2>5. CASE Priced
    BY <2>5 DEF Priced
  <2>6. QED
    BY <1>1, <2>1, <2>2, <2>3, <2>4, <2>5 DEF Next
<1>2. [Next]_vars => [Identified]_vars
  BY <1>1
<1>3. QED
  BY <1>2, PTL DEF Spec, CallersAreIdentified

(* Whatever rules a service is given one after the other, one that allows  *)
(* no more and denies no less than the one before grants nothing new.      *)
THEOREM NarrowingGrantsNothing == Spec => NarrowingTakesAway
<1>. DEFINE Takes ==
       \A s \in Service :
          rules[s] # None /\ rules'[s] # None /\ Narrower(rules'[s], rules[s])
          => \A t \in Target : Grants(rules'[s], t) => Grants(rules[s], t)
<1>1. \A new, old, t : Narrower(new, old) /\ Grants(new, t) => Grants(old, t)
  BY DEF Narrower, Grants
<1>2. [Next]_vars => [Takes]_vars
  BY <1>1
<1>3. QED
  BY <1>2, PTL DEF Spec, NarrowingTakesAway

================================================================================
