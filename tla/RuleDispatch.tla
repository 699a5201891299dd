----------------------------- MODULE RuleDispatch -----------------------------
(***************************************************************************)
(* How a request finds its rule: PPServerProxy.handleExpressRequest for    *)
(* HTTP requests and PPWebsocketProxy.handleConnection for WebSocket       *)
(* connections are the same loop over PPRule.test().  Every matcher is     *)
(* awaited, so requests interleave with each other and with the program,   *)
(* which may add rules (addRule), matchers (match, host, url, ...) and     *)
(* handlers (then) at any time: the loops iterate over the live arrays.    *)
(***************************************************************************)
EXTENDS Naturals, Sequences, FiniteSets

CONSTANTS
    Request,      \* HTTP requests or WebSocket connections
    Rule,         \* the rules the program may add
    Matcher,      \* matcher callbacks
    Verdict,      \* Verdict[m]: the requests matcher m accepts
    MaxRules,     \* bound: rules added
    MaxMatchers   \* bound: matchers per rule

ASSUME DispatchAssumption ==
    /\ Verdict \in [Matcher -> SUBSET Request]
    /\ {MaxRules, MaxMatchers} \subseteq Nat

VARIABLES
    rules,        \* the array `rules` of the server
    listMatch,    \* PPRule#listMatch of each rule
    handler,      \* the rules that have a handler
    phase,        \* where each request is
    pos,          \* the index of the loop over rules
    accepted,     \* the index of the loop over listMatch: matchers that said yes
    tested,       \* history: how many matchers its rule had when test() returned true
    known         \* history: how many rules there were when a request came

vars == <<rules, listMatch, handler, phase, pos, accepted, tested, known>>

Decided == {"handled", "ignored", "passed"}

Matched == {"matched", "handled", "ignored"}

TypeOK ==
    /\ rules \in Seq(Rule)
    /\ listMatch \in [Rule -> Seq(Matcher)]
    /\ handler \in SUBSET Rule
    /\ phase \in [Request -> {"new", "testing", "matched"} \cup Decided]
    /\ pos \in [Request -> Nat \ {0}]
    /\ accepted \in [Request -> Nat]
    /\ tested \in [Request -> Nat]
    /\ known \in [Request -> Nat]

Init ==
    /\ rules = <<>>
    /\ listMatch = [rule \in Rule |-> <<>>]
    /\ handler = {}
    /\ phase = [r \in Request |-> "new"]
    /\ pos = [r \in Request |-> 1]
    /\ accepted = [r \in Request |-> 0]
    /\ tested = [r \in Request |-> 0]
    /\ known = [r \in Request |-> 0]

-----------------------------------------------------------------------------
(***************************************************************************)
(* The program                                                             *)
(***************************************************************************)

\* Mutant of AddRule: unshift() in place of push().
AddRuleFirst(rule) ==
    /\ Len(rules) < MaxRules
    /\ rules' = <<rule>> \o rules
    /\ UNCHANGED <<listMatch, handler, phase, pos, accepted, tested, known>>

AddRule(rule) ==
    /\ Len(rules) < MaxRules
    /\ rules' = Append(rules, rule)
    /\ UNCHANGED <<listMatch, handler, phase, pos, accepted, tested, known>>

Match(rule, m) ==
    /\ Len(listMatch[rule]) < MaxMatchers
    /\ listMatch' = [listMatch EXCEPT ![rule] = Append(@, m)]
    /\ UNCHANGED <<rules, handler, phase, pos, accepted, tested, known>>

Then(rule) ==
    /\ rule \notin handler
    /\ handler' = handler \cup {rule}
    /\ UNCHANGED <<rules, listMatch, phase, pos, accepted, tested, known>>

-----------------------------------------------------------------------------
(***************************************************************************)
(* A request                                                               *)
(***************************************************************************)

Arrive(r) ==
    /\ phase[r] = "new"
    /\ phase' = [phase EXCEPT ![r] = "testing"]
    /\ known' = [known EXCEPT ![r] = Len(rules)]
    /\ UNCHANGED <<rules, listMatch, handler, pos, accepted, tested>>

Current(r) == rules[pos[r]]

Testing(r) == phase[r] = "testing" /\ pos[r] <= Len(rules)

MoreMatchers(r) == accepted[r] < Len(listMatch[Current(r)])

\* What the awaited matcher answers: a constant of the matcher and the request.
Says(r) == r \in Verdict[listMatch[Current(r)][accepted[r] + 1]]

\* test(): the next matcher accepts.
MatcherAccepts(r) ==
    /\ Testing(r) /\ MoreMatchers(r) /\ Says(r)
    /\ accepted' = [accepted EXCEPT ![r] = @ + 1]
    /\ UNCHANGED <<rules, listMatch, handler, phase, pos, tested, known>>

\* test(): a matcher refuses; the loop goes on to the next rule.
MatcherRefuses(r) ==
    /\ Testing(r) /\ MoreMatchers(r) /\ ~Says(r)
    /\ accepted' = [accepted EXCEPT ![r] = 0]
    /\ pos' = [pos EXCEPT ![r] = @ + 1]
    /\ UNCHANGED <<rules, listMatch, handler, phase, tested, known>>

\* Mutant of TestSucceeds: some() in place of every().
TestSucceedsSome(r) ==
    /\ Testing(r) /\ (accepted[r] > 0 \/ ~MoreMatchers(r))
    /\ phase' = [phase EXCEPT ![r] = "matched"]
    /\ tested' = [tested EXCEPT ![r] = Len(listMatch[Current(r)])]
    /\ UNCHANGED <<rules, listMatch, handler, pos, accepted, known>>

\* test() ran out of matchers: true, also for a rule that has none.
TestSucceeds(r) ==
    /\ Testing(r) /\ ~MoreMatchers(r)
    /\ phase' = [phase EXCEPT ![r] = "matched"]
    /\ tested' = [tested EXCEPT ![r] = Len(listMatch[Current(r)])]
    /\ UNCHANGED <<rules, listMatch, handler, pos, accepted, known>>

\* Mutant of Handle: a rule without a handler is waited for.
HandleIfAny(r) ==
    /\ phase[r] = "matched"
    /\ Current(r) \in handler
    /\ phase' = [phase EXCEPT ![r] = "handled"]
    /\ UNCHANGED <<rules, listMatch, handler, pos, accepted, tested, known>>

\* The await of test() returns: rule.handle(), which only writes 'No handler'
\* when the rule has none.
Handle(r) ==
    /\ phase[r] = "matched"
    /\ phase' = [phase EXCEPT ![r] = IF Current(r) \in handler
                                     THEN "handled" ELSE "ignored"]
    /\ UNCHANGED <<rules, listMatch, handler, pos, accepted, tested, known>>

\* Mutant of PassThrough: the last rule is not tried.
PassThroughEarly(r) ==
    /\ phase[r] = "testing"
    /\ pos[r] >= Len(rules)
    /\ phase' = [phase EXCEPT ![r] = "passed"]
    /\ UNCHANGED <<rules, listMatch, handler, pos, accepted, tested, known>>

\* No rule is left: the pass-through handler.
PassThrough(r) ==
    /\ phase[r] = "testing"
    /\ pos[r] > Len(rules)
    /\ phase' = [phase EXCEPT ![r] = "passed"]
    /\ UNCHANGED <<rules, listMatch, handler, pos, accepted, tested, known>>

Step(r) ==
    \/ MatcherAccepts(r)
    \/ MatcherRefuses(r)
    \/ TestSucceeds(r)
    \/ Handle(r)
    \/ PassThrough(r)

Next ==
    \/ \E rule \in Rule : AddRule(rule) \/ Then(rule)
    \/ \E rule \in Rule, m \in Matcher : Match(rule, m)
    \/ \E r \in Request : Arrive(r) \/ Step(r)

\* Matchers answer and awaits return.
Fairness == \A r \in Request : WF_vars(Step(r))

Spec == Init /\ [][Next]_vars /\ Fairness

-----------------------------------------------------------------------------
(***************************************************************************)
(* Properties                                                              *)
(***************************************************************************)

\* Rule i refuses request r: one of its matchers does.
Refuses(i, r) ==
    \E k \in 1..Len(listMatch[rules[i]]) : r \notin Verdict[listMatch[rules[i]][k]]

\* The first rule that accepts wins: every rule before the one a request has
\* reached refuses it, although rules, matchers and other requests came in
\* between the awaits.
FirstMatchWins ==
    \A r \in Request : \A i \in 1..(pos[r] - 1) : i <= Len(rules) /\ Refuses(i, r)

\* A request is handled by a rule whose matchers, all that it had when test()
\* returned, accept it: test() looks at every one of them, also at those that were
\* added during its awaits, and uses no verdict about another rule or request.
HandledByAMatch ==
    \A r \in Request : phase[r] \in Matched =>
        /\ pos[r] <= Len(rules)
        /\ tested[r] <= Len(listMatch[Current(r)])
        /\ \A k \in 1..tested[r] : r \in Verdict[listMatch[Current(r)][k]]

\* Traffic goes to the destination unmodified only if every rule there was when
\* the request came refuses it.
PassedOnlyIfRefused ==
    \A r \in Request : phase[r] = "passed" =>
        \A i \in 1..known[r] : Refuses(i, r)

\* Every request is decided in the end, also while rules are being added.
EveryRequestIsDecided ==
    \A r \in Request : (phase[r] = "testing") ~> (phase[r] \in Decided)
=============================================================================
