----------------------------- MODULE RequestGuards -----------------------------
(***************************************************************************)
(* What the proxy decides about a request before and after its upstream:   *)
(* who calls (policy/authenticator.py), whether the caller may             *)
(* (policy/rbac.py), what of the body goes out (proxy/dlp.py), with which  *)
(* credential (proxy/injector.py), and what the answer costs               *)
(* (policy/cost_models.py), in the order of server.py.  Tokens are issued  *)
(* and expire, and rules change, between requests and during them.         *)
(*                                                                         *)
(* A token is one that issue_service_token made.  A pattern is the set of  *)
(* the names it matches.  Of a body it matters whether it can be decoded,  *)
(* which kinds of sensitive data the guard's patterns see in it, cards     *)
(* standing for API keys too, and which of these hide a card: the guard    *)
(* reads '123-45-6789 378282246310005' as one long number that fails the   *)
(* Luhn check until the SSN is replaced.  Header names come in lower case  *)
(* from the web framework and as they were configured from a profile.      *)
(***************************************************************************)
EXTENDS Integers, FiniteSets

CONSTANTS
    Service,
    StaticKey,      \* the pre-shared keys: a function on some of the services
    Ttl,            \* the times to live tokens are issued with
    Profile, Method, Path,
    Rule,           \* the rules services are given
    DefaultDeny,    \* PolicyEngine.default_deny
    Guard,          \* the settings of the DLP guard
    Price,          \* AI_MODELS: per model the price of a token in and of a token out
    MinCost,        \* 0.00001
    Fee,            \* what is charged for an answer without a known model
    Usage,          \* the numbers of tokens an answer may report
    None,
    MaxTime,        \* bound of the model: the clock stops there
    MaxTokens       \* bound of the model: tokens there ever are

\* How a caller that says nothing is called on each route.
Nobody == [explicit |-> "anonymous-caller", transparent |-> "transparent-caller"]

Dimension == {"profile", "method", "path"}
Target == [profile : Profile, method : Method, path : Path]
Patterns == [profile : SUBSET Profile, method : SUBSET Method, path : SUBSET Path]

Token == [sub : Service, exp : Int]
StaticKeys == {StaticKey[s] : s \in DOMAIN StaticKey}

Kind == {"card", "ssn", "email", "entropy"}
Body == {b \in [text : BOOLEAN, kinds : SUBSET Kind, hidden : SUBSET (Kind \ {"card"})] :
            b.hidden \subseteq IF b.text THEN b.kinds ELSE {}}
GuardSettings == [mode : {"audit", "mask", "block"}, scan : [Kind \ {"entropy"} -> BOOLEAN]]

InternalName == {"host", "x-service-id", "x-service-token", "x-secretshield-cost", "content-length"}
HeaderName == {"x-service-token", "authorization", "x-api-key"}
Header == [name : HeaderName, spelling : {"lower", "configured"}, value : {"caller", "secret"}]

ASSUME GuardAssumption ==
    /\ {Nobody.explicit, Nobody.transparent} \subseteq Service
    /\ DOMAIN StaticKey \subseteq Service
    /\ StaticKeys \cap Token = {}
    /\ Ttl \subseteq Int
    /\ Rule \subseteq [allow : Patterns, deny : Patterns]
    /\ DefaultDeny \in BOOLEAN
    /\ Guard \subseteq GuardSettings
    /\ \A m \in DOMAIN Price : Price[m] \in [in : Nat, out : Nat]
    /\ MinCost \in Nat \ {0}
    /\ Fee \subseteq Nat \ {0}
    /\ Usage \subseteq Nat
    /\ None \notin Token \cup StaticKeys \cup Service \cup Rule

VARIABLES
    clock,
    tokens,     \* the tokens issued so far
    rules,      \* PolicyEngine._rules
    req         \* the request in hand: its stage, and what of it is still looked at

vars == <<clock, tokens, rules, req>>

-----------------------------------------------------------------------------
(* authenticate *)

\* jwt.decode accepts t: it has not expired.
Live(t) == t \in tokens /\ clock < t.exp

\* Mutant: a service that has a static key must use it.
AuthenticateStrictly(claimed, token) ==
    CASE claimed \in DOMAIN StaticKey -> IF token = StaticKey[claimed] THEN claimed ELSE None
      [] claimed \notin DOMAIN StaticKey /\ Live(token) /\ claimed \in {None, token.sub} -> token.sub
      [] OTHER -> None

\* The identity, or None for an AuthenticationError.
Authenticate(claimed, token) ==
    IF claimed \in DOMAIN StaticKey /\ token = StaticKey[claimed] THEN claimed
    ELSE IF Live(token) /\ claimed \in {None, token.sub} THEN token.sub
    ELSE None

\* The explicit route authenticates whoever shows or claims anything; the transparent
\* one goes by the claim.
Identity(p) ==
    IF p.route = "explicit" /\ (p.claimed # None \/ p.token # None)
      THEN Authenticate(p.claimed, p.token)
    ELSE IF p.claimed = None THEN Nobody[p.route]
    ELSE p.claimed

-----------------------------------------------------------------------------
(* is_allowed *)

\* Mutant: an empty list of allowances allows everything.
GrantsWithoutList(rule, t) ==
    \A d \in Dimension :
        /\ t[d] \notin rule.deny[d]
        /\ t[d] \in rule.allow[d] \/ rule.allow[d] = {}

\* No denial matches, and an allowance does in each dimension.
Grants(rule, t) ==
    \A d \in Dimension :
        /\ t[d] \notin rule.deny[d]
        /\ t[d] \in rule.allow[d]

Allowed(s, t) == IF rules[s] = None THEN ~DefaultDeny ELSE Grants(rules[s], t)

-----------------------------------------------------------------------------
(* inspect_payload *)

\* The kinds the guard looks for; high entropy is never among them.
Sought(g) == {k \in Kind \ {"entropy"} : g.scan[k]}

\* What redact_text replaces.
Redacted == {"card", "entropy"}

\* The guard has violations; a body that is not UTF-8 it does not scan.
Found(g, b) == b.text /\ b.kinds \cap Sought(g) # {}

\* What is left of b when its data of some kinds is replaced, and what that brings up.
Replaced(b, kinds) ==
    [b EXCEPT !.kinds  = (@ \ kinds) \cup (IF b.hidden \cap kinds = {} THEN {} ELSE {"card"}),
              !.hidden = @ \ kinds]

\* Mutant: redact_text is taken to replace every kind.
SanitizedByRedactor(g, b) ==
    IF Found(g, b) /\ g.mode = "mask" THEN Replaced(b, Redacted) ELSE b

\* Of a body with violations, MASK replaces what redact_text does, and then the numbers
\* and addresses it was told to look for.  It does not scan the result.
Sanitized(g, b) ==
    IF Found(g, b) /\ g.mode = "mask"
      THEN Replaced(Replaced(b, Redacted), {"ssn", "email"} \cap Sought(g))
      ELSE b

-----------------------------------------------------------------------------
(* prepare_headers and prepare_url *)

\* The dictionary: the caller's headers without the internal ones, and the credential
\* under the name the profile gives it, in place of one spelled the same way and beside
\* one that is not.
Outbound(inbound, p) ==
    LET kept == {h \in inbound : h.name \notin InternalName}
    IN  {h \in kept : ~(h.name = p.header /\ h.spelling = p.spelling)}
        \cup {[name |-> p.header, spelling |-> p.spelling, value |-> "secret"]}

-----------------------------------------------------------------------------
(* estimate_from_response *)

TokenCost(m, in, out) ==
    LET c == in * Price[m].in + out * Price[m].out
    IN  IF c > MinCost THEN c ELSE MinCost

-----------------------------------------------------------------------------
Init ==
    /\ clock = 0
    /\ tokens = {}
    /\ rules = [s \in Service |-> None]
    /\ req = [stage |-> "idle"]

\* issue_service_token.
Issue ==
    /\ Cardinality(tokens) < MaxTokens
    /\ \E s \in Service, ttl \in Ttl : tokens' = tokens \cup {[sub |-> s, exp |-> clock + ttl]}
    /\ UNCHANGED <<clock, rules, req>>

\* Mutant: a rule adds to what the one before it allows.
SetRuleAdding ==
    /\ \E s \in Service, rule \in Rule :
          rules' = [rules EXCEPT ![s] =
                       IF @ = None THEN rule
                       ELSE [rule EXCEPT !.allow = [d \in Dimension |-> rule.allow[d] \cup rules[s].allow[d]]]]
    /\ UNCHANGED <<clock, tokens, req>>

\* set_rule.
SetRule ==
    /\ \E s \in Service, rule \in Rule : rules' = [rules EXCEPT ![s] = rule]
    /\ UNCHANGED <<clock, tokens, req>>

Tick ==
    /\ clock < MaxTime
    /\ clock' = clock + 1
    /\ UNCHANGED <<tokens, rules, req>>

Presented == [route : {"explicit", "transparent"}, claimed : Service \cup {None},
              token : tokens \cup StaticKeys \cup {None}]

\* A request arrives and is identified and judged, with no await in between.
Arrive ==
    /\ req.stage \notin {"body", "inspected", "sent"}
    /\ \E p \in Presented, t \in Target :
          LET s == Identity(p)
          IN  req' = [stage     |-> IF s = None THEN "unauthenticated"
                                    ELSE IF Allowed(s, t) THEN "body" ELSE "denied",
                      presented |-> p,
                      caller    |-> s]
    /\ UNCHANGED <<clock, tokens, rules>>

\* The body is there: refused, or on its way, sanitized or not.
Inspect ==
    /\ req.stage = "body"
    /\ \E g \in Guard, b \in Body :
          req' = IF g.mode = "block" /\ Found(g, b) THEN [stage |-> "blocked"]
                 ELSE [stage |-> "inspected", guard |-> g, raw |-> b, body |-> Sanitized(g, b)]
    /\ UNCHANGED <<clock, tokens, rules>>

\* forward builds the request for the upstream.  (A profile that wants the credential in
\* a query parameter has it put there in the same way; the headers are then only cleaned.)
Send ==
    /\ req.stage = "inspected"
    /\ \E names \in SUBSET HeaderName, header \in HeaderName \ InternalName, spelling \in {"lower", "configured"} :
          LET p       == [header |-> header, spelling |-> spelling]
              inbound == {[name |-> n, spelling |-> "lower", value |-> "caller"] : n \in names}
          IN  req' = [stage |-> "sent", profile |-> p, headers |-> Outbound(inbound, p)]
    /\ UNCHANGED <<clock, tokens, rules>>

\* The answer is priced by its model and usage, or by a fee.
Priced ==
    /\ req.stage = "sent"
    /\ \/ \E m \in DOMAIN Price, in, out \in Usage : req' = [stage |-> "answered", cost |-> TokenCost(m, in, out)]
       \/ \E fee \in Fee : req' = [stage |-> "answered", cost |-> fee]
    /\ UNCHANGED <<clock, tokens, rules>>

Next == Issue \/ SetRule \/ Tick \/ Arrive \/ Inspect \/ Send \/ Priced

Spec == Init /\ [][Next]_vars

-----------------------------------------------------------------------------
TypeOK ==
    /\ clock \in Nat
    /\ tokens \subseteq Token
    /\ rules \in [Service -> Rule \cup {None}]
    /\ req \in [stage : {"idle", "blocked"}]
         \cup [stage : {"unauthenticated", "denied", "body"}, caller : Service \cup {None},
               presented : [route : {"explicit", "transparent"}, claimed : Service \cup {None},
                            token : Token \cup StaticKeys \cup {None}]]
         \cup [stage : {"inspected"}, guard : Guard, raw : Body, body : Body]
         \cup [stage : {"sent"}, headers : SUBSET Header,
               profile : [header : HeaderName, spelling : {"lower", "configured"}]]
         \cup [stage : {"answered"}, cost : Nat]

\* The credentials p are those of service s at this moment.
Proves(p, s) ==
    \/ s \in DOMAIN StaticKey /\ p.claimed = s /\ p.token = StaticKey[s]
    \/ p.claimed \in {None, s} /\ \E t \in tokens : t = p.token /\ t.sub = s /\ clock < t.exp

(* On the explicit route whoever shows or claims anything passes for a     *)
(* service exactly if it shows its static key, or a token of it that has   *)
(* not expired: a service with a static key can use its tokens as well.    *)
CallersAreIdentified ==
    [][\A s \in Service :
          /\ req'.stage \in {"body", "denied", "unauthenticated"}
          /\ req' # req
          /\ req'.presented.route = "explicit"
          /\ req'.presented.claimed # None \/ req'.presented.token # None
          => (req'.caller = s <=> Proves(req'.presented, s))]_vars

Narrower(new, old) ==
    \A d \in Dimension : new.allow[d] \subseteq old.allow[d] /\ old.deny[d] \subseteq new.deny[d]

(* A rule that allows no more and denies no less than the rule it replaces *)
(* grants nothing that was refused before, empty lists included.           *)
NarrowingTakesAway ==
    [][\A s \in Service :
          rules[s] # None /\ rules'[s] # None /\ Narrower(rules'[s], rules[s])
          => \A t \in Target : Grants(rules'[s], t) => Grants(rules[s], t)]_vars

\* Of a text that is blocked or masked nothing goes out that the guard looks for, except
\* a card that was hidden by other data which masking has replaced.
BodyIsClean ==
    req.stage = "inspected" /\ req.guard.mode # "audit" /\ req.raw.text =>
        LET left == req.body.kinds \cap Sought(req.guard)
        IN  /\ left \subseteq {"card"}
            /\ left # {} => /\ req.guard.mode = "mask"
                           /\ \E k \in req.raw.hidden : k \notin req.body.kinds

\* The secret goes out once, in the header and the spelling of the profile, and no internal
\* header does.  What the caller sent under that name goes out beside it if the profile
\* spells it in another way, and not at all if it does not.
CredentialGoesOut ==
    req.stage = "sent" =>
        LET p          == req.profile
            credential == [name |-> p.header, spelling |-> p.spelling, value |-> "secret"]
        IN  /\ credential \in req.headers
            /\ \A h \in req.headers \ {credential} :
                  /\ h.name \notin InternalName
                  /\ h.value = "caller"
                  /\ h.name = p.header => h.spelling # p.spelling

\* No answer is free, also if the upstream reports a usage of no tokens.
AnswerCosts == req.stage = "answered" => req.cost > 0

(* What leaves the proxy is fit to, as far as the code sees to it: what a  *)
(* guard blocks or masks of a text leaves at most a card that it has       *)
(* uncovered itself, whatever the guard looks for and whatever hides what; *)
(* the upstream gets the secret once and no internal header; the budget is *)
(* charged for every answer.                                               *)
LeavesFit == BodyIsClean /\ CredentialGoesOut /\ AnswerCosts
================================================================================
