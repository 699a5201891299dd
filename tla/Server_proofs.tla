---------------------------- MODULE Server_proofs ----------------------------
(***************************************************************************)
(* Proofs about the proxy's server (src/src/server/server.ts), for every   *)
(* value of the constants:                                                 *)
(*   - which rule takes an HTTP request (RuleDispatch);                    *)
(*   - the fetch that answers a request no rule takes (HttpPassThrough);   *)
(*   - the tunnel of a CONNECT request (ConnectTunnel, ComboServer).       *)
(***************************************************************************)
EXTENDS RuleDispatch, HttpPassThrough, ConnectTunnel, SequenceTheorems, TLAPS

-----------------------------------------------------------------------------
(***************************************************************************)
(* The dispatch                                                            *)
(***************************************************************************)

\* The rules there were when a request came are still there, and it passes only
\* beyond them.
KnownRules ==
    \A r \in Request : /\ known[r] <= Len(rules)
                       /\ phase[r] = "passed" => known[r] < pos[r]

\* The verdicts a request carries along are those of the first matchers of the rule
\* it has reached.
OwnVerdicts ==
    \A r \in Request :
        /\ pos[r] <= Len(rules) => accepted[r] <= Len(listMatch[Current(r)])
        /\ \A k \in 1..accepted[r] : /\ pos[r] <= Len(rules)
                                     /\ r \in Verdict[listMatch[Current(r)][k]]
        /\ phase[r] \in Matched => pos[r] <= Len(rules)

\* test() returned true when all matchers had accepted.
Exhausted == \A r \in Request : phase[r] \in Matched => tested[r] = accepted[r]

\* The inductive invariant: what the loops have seen of the live arrays still
\* holds of them, because the arrays only grow at the end.
IInv == TypeOK /\ FirstMatchWins /\ OwnVerdicts /\ Exhausted /\ KnownRules

LEMMA InitIInv == Init => IInv
<1> SUFFICES ASSUME Init PROVE IInv
  OBVIOUS
<1>1. <<>> \in Seq(Rule) /\ <<>> \in Seq(Matcher) /\ Len(<<>>) = 0
  BY EmptySeq
<1>2. TypeOK
  BY <1>1 DEF Init, TypeOK
<1>3. FirstMatchWins
  BY DEF Init, FirstMatchWins
<1>4. OwnVerdicts
  BY <1>1 DEF Init, OwnVerdicts, Matched
<1>5. KnownRules
  BY <1>1 DEF Init, KnownRules
<1>6. Exhausted
  BY DEF Init, Exhausted, Matched
<1>7. QED
  BY <1>2, <1>3, <1>4, <1>5, <1>6 DEF IInv

\* A step of the program that only adds to the arrays keeps everything a request
\* has found out about them.
LEMMA GrowingKeepsIInv ==
    ASSUME IInv, TypeOK',
           UNCHANGED <<phase, pos, accepted, tested, known>>,
           Len(rules') >= Len(rules),
           \A i \in 1..Len(rules) : rules'[i] = rules[i],
           \A rule \in Rule :
               /\ Len(listMatch'[rule]) >= Len(listMatch[rule])
               /\ \A k \in 1..Len(listMatch[rule]) : listMatch'[rule][k] = listMatch[rule][k],
           \* a request that ran out of rules has accepted nothing of a new one
           \A r \in Request : pos[r] > Len(rules) => accepted[r] = 0
    PROVE  IInv'
<1>1. /\ rules \in Seq(Rule) /\ Len(rules) \in Nat /\ Len(rules') \in Nat
      /\ rules' \in Seq(Rule)
      /\ listMatch \in [Rule -> Seq(Matcher)] /\ listMatch' \in [Rule -> Seq(Matcher)]
      /\ pos \in [Request -> Nat \ {0}] /\ accepted \in [Request -> Nat]
      /\ known \in [Request -> Nat]
  BY LenProperties DEF IInv, TypeOK
<1>2. \A rule \in Rule : Len(listMatch[rule]) \in Nat /\ Len(listMatch'[rule]) \in Nat
  BY <1>1, LenProperties
<1>3. \A i \in 1..Len(rules) : rules[i] \in Rule /\ rules'[i] = rules[i]
  BY <1>1, ElementOfSeq
<1>4. FirstMatchWins'
  <2> SUFFICES ASSUME NEW r \in Request, NEW i \in 1..(pos[r] - 1)
               PROVE  i <= Len(rules') /\ Refuses(i, r)'
    BY DEF FirstMatchWins
  <2>1. i <= Len(rules) /\ Refuses(i, r) /\ i \in 1..Len(rules)
    BY <1>1 DEF IInv, FirstMatchWins
  <2>2. PICK k \in 1..Len(listMatch[rules[i]]) : r \notin Verdict[listMatch[rules[i]][k]]
    BY <2>1 DEF Refuses
  <2>3. /\ rules'[i] = rules[i] /\ rules[i] \in Rule
        /\ listMatch'[rules[i]][k] = listMatch[rules[i]][k]
        /\ k \in 1..Len(listMatch'[rules[i]])
    BY <1>2, <1>3, <2>1, <2>2
  <2>4. i <= Len(rules')
    BY <1>1, <2>1
  <2>5. r \notin Verdict[listMatch'[rules'[i]][k]] /\ k \in 1..Len(listMatch'[rules'[i]])
    BY <2>2, <2>3
  <2>6. \E n \in 1..Len(listMatch'[rules'[i]]) : r \notin Verdict[listMatch'[rules'[i]][n]]
    BY <2>5
  <2>7. QED
    BY <2>4, <2>6 DEF Refuses
<1>5. OwnVerdicts'
  <2> SUFFICES ASSUME NEW r \in Request
               PROVE  /\ pos[r] <= Len(rules') => accepted[r] <= Len(listMatch'[rules'[pos[r]]])
                      /\ \A k \in 1..accepted[r] :
                            /\ pos[r] <= Len(rules')
                            /\ r \in Verdict[listMatch'[rules'[pos[r]]][k]]
                      /\ phase[r] \in Matched => pos[r] <= Len(rules')
    BY DEF OwnVerdicts, Current
  <2>1. /\ pos[r] <= Len(rules) => accepted[r] <= Len(listMatch[rules[pos[r]]])
        /\ \A k \in 1..accepted[r] : /\ pos[r] <= Len(rules)
                                     /\ r \in Verdict[listMatch[rules[pos[r]]][k]]
        /\ phase[r] \in Matched => pos[r] <= Len(rules)
    BY DEF IInv, OwnVerdicts, Current
  <2>2. CASE pos[r] <= Len(rules)
    <3>1. pos[r] \in 1..Len(rules) /\ pos[r] <= Len(rules')
      <4>1. pos[r] \in Nat \ {0}
        BY <1>1
      <4>2. Len(rules) \in Nat /\ Len(rules') \in Nat /\ Len(rules') >= Len(rules)
        BY <1>1
      <4>3. QED
        BY <2>2, <4>1, <4>2
    <3>2. rules'[pos[r]] = rules[pos[r]] /\ rules[pos[r]] \in Rule
      BY <1>3, <3>1
    <3> DEFINE x == rules[pos[r]]
    <3>3. /\ x \in Rule /\ rules'[pos[r]] = x
          /\ accepted[r] <= Len(listMatch[x])
          /\ \A k \in 1..accepted[r] : r \in Verdict[listMatch[x][k]]
      BY <2>1, <2>2, <3>2
    <3> HIDE DEF x
    <3>4. /\ Len(listMatch'[x]) \in Nat /\ Len(listMatch[x]) \in Nat
          /\ Len(listMatch'[x]) >= Len(listMatch[x])
          /\ \A k \in 1..Len(listMatch[x]) : listMatch'[x][k] = listMatch[x][k]
          /\ accepted[r] \in Nat
      BY <1>1, <1>2, <3>3
    <3>5. accepted[r] <= Len(listMatch'[x])
      BY <3>3, <3>4
    <3>6. \A k \in 1..accepted[r] : r \in Verdict[listMatch'[x][k]]
      BY <3>3, <3>4
    <3>7. QED
      BY <3>1, <3>3, <3>5, <3>6
  <2>3. CASE pos[r] > Len(rules)
    <3>1. accepted[r] = 0
      BY <2>3
    <3>2. pos[r] <= Len(rules') => rules'[pos[r]] \in Rule
      BY <1>1, ElementOfSeq
    <3>3. QED
      BY <1>1, <1>2, <2>1, <2>3, <3>1, <3>2
  <2>4. QED
    BY <1>1, <2>2, <2>3
<1>6. KnownRules'
  BY <1>1 DEF IInv, KnownRules
<1>7. Exhausted'
  BY DEF IInv, Exhausted
<1>8. QED
  BY <1>4, <1>5, <1>6, <1>7 DEF IInv

\* A request that has run out of rules carries no verdict of a rule along.
LEMMA NothingAcceptedBeyond ==
    ASSUME IInv, NEW r \in Request, pos[r] > Len(rules)
    PROVE  accepted[r] = 0
<1>1. accepted[r] \in Nat /\ pos[r] \in Nat /\ Len(rules) \in Nat
  BY LenProperties DEF IInv, TypeOK
<1>2. \A k \in 1..accepted[r] : pos[r] <= Len(rules)
  BY DEF IInv, OwnVerdicts
<1>3. QED
  BY <1>1, <1>2

LEMMA AddingRulesKeepsIInv ==
    ASSUME IInv, NEW rule \in Rule, AddRule(rule) \/ Then(rule)
    PROVE  IInv'
<1>1. /\ rules \in Seq(Rule) /\ Len(rules) \in Nat
      /\ listMatch \in [Rule -> Seq(Matcher)]
      /\ UNCHANGED <<phase, pos, accepted, tested, known>>
  BY LenProperties DEF IInv, TypeOK, AddRule, Then
<1>2. \A x \in Rule : Len(listMatch[x]) \in Nat
  BY <1>1, LenProperties
<1>3. \A r \in Request : pos[r] > Len(rules) => accepted[r] = 0
  BY NothingAcceptedBeyond
<1>4. CASE AddRule(rule)
  <2>1. /\ rules' = Append(rules, rule) /\ UNCHANGED <<listMatch, handler>>
    BY <1>4 DEF AddRule
  <2>2. /\ rules' \in Seq(Rule) /\ Len(rules') = Len(rules) + 1
        /\ \A i \in 1..Len(rules) : rules'[i] = rules[i]
    BY <1>1, <2>1, AppendProperties
  <2>3. TypeOK'
    BY <1>1, <2>1, <2>2 DEF IInv, TypeOK
  <2>4. QED
    BY <1>1, <1>2, <1>3, <2>1, <2>2, <2>3, GrowingKeepsIInv
<1>5. CASE Then(rule)
  <2>1. handler' = handler \cup {rule} /\ UNCHANGED <<rules, listMatch>>
    BY <1>5 DEF Then
  <2>2. TypeOK'
    BY <1>1, <2>1 DEF IInv, TypeOK
  <2>3. QED
    BY <1>1, <1>2, <1>3, <2>1, <2>2, GrowingKeepsIInv
<1>6. QED
  BY <1>4, <1>5

LEMMA AddingMatchersKeepsIInv ==
    ASSUME IInv, NEW rule \in Rule, NEW m \in Matcher, Match(rule, m)
    PROVE  IInv'
<1>1. /\ rules \in Seq(Rule) /\ Len(rules) \in Nat
      /\ listMatch \in [Rule -> Seq(Matcher)]
      /\ UNCHANGED <<phase, pos, accepted, tested, known>>
  BY LenProperties DEF IInv, TypeOK, Match
<1>2. \A x \in Rule : Len(listMatch[x]) \in Nat
  BY <1>1, LenProperties
<1>3. \A r \in Request : pos[r] > Len(rules) => accepted[r] = 0
  BY NothingAcceptedBeyond
<1>4. QED
  <2>1. /\ listMatch' = [listMatch EXCEPT ![rule] = Append(@, m)]
        /\ UNCHANGED <<rules, handler>>
    BY DEF Match
  <2>2. /\ Append(listMatch[rule], m) \in Seq(Matcher)
        /\ Len(Append(listMatch[rule], m)) = Len(listMatch[rule]) + 1
        /\ \A k \in 1..Len(listMatch[rule]) : Append(listMatch[rule], m)[k] = listMatch[rule][k]
    BY <1>1, AppendProperties
  <2>3. /\ listMatch'[rule] = Append(listMatch[rule], m)
        /\ \A x \in Rule : x # rule => listMatch'[x] = listMatch[x]
    BY <1>1, <2>1
  <2>4. TypeOK'
    BY <1>1, <2>1, <2>2 DEF IInv, TypeOK
  <2>5. \A x \in Rule :
            /\ Len(listMatch'[x]) >= Len(listMatch[x])
            /\ \A k \in 1..Len(listMatch[x]) : listMatch'[x][k] = listMatch[x][k]
    BY <1>2, <2>2, <2>3
  <2>6. QED
    BY <1>1, <1>3, <2>1, <2>4, <2>5, GrowingKeepsIInv

\* A step of one request leaves the arrays and every other request alone: the
\* invariant has to be shown for that request only.
LEMMA StepKeepsIInv ==
    ASSUME IInv, NEW r \in Request, Arrive(r) \/ Step(r)
    PROVE  IInv'
<1>1. /\ rules \in Seq(Rule) /\ Len(rules) \in Nat
      /\ listMatch \in [Rule -> Seq(Matcher)] /\ handler \in SUBSET Rule
      /\ phase \in [Request -> {"new", "testing", "matched"} \cup Decided]
      /\ pos \in [Request -> Nat \ {0}] /\ accepted \in [Request -> Nat]
      /\ known \in [Request -> Nat] /\ tested \in [Request -> Nat]
  BY LenProperties DEF IInv, TypeOK
<1>2. UNCHANGED <<rules, listMatch, handler>>
  BY DEF Arrive, Step, MatcherAccepts, MatcherRefuses, TestSucceeds, Handle, PassThrough
<1>3. pos[r] <= Len(rules) => Current(r) \in Rule /\ Len(listMatch[Current(r)]) \in Nat
  BY <1>1, ElementOfSeq, LenProperties DEF Current
<1>4. /\ phase' \in [Request -> {"new", "testing", "matched"} \cup Decided]
      /\ pos' \in [Request -> Nat \ {0}] /\ accepted' \in [Request -> Nat]
      /\ known' \in [Request -> Nat] /\ tested' \in [Request -> Nat]
      /\ \A x \in Request : x # r =>
            phase'[x] = phase[x] /\ pos'[x] = pos[x] /\ tested'[x] = tested[x]
            /\ accepted'[x] = accepted[x] /\ known'[x] = known[x]
  <2>1. CASE Arrive(r)
    BY <1>1, <2>1 DEF Arrive
  <2>2. CASE MatcherAccepts(r)
    BY <1>1, <2>2 DEF MatcherAccepts
  <2>3. CASE MatcherRefuses(r)
    BY <1>1, <2>3 DEF MatcherRefuses
  <2>4. CASE TestSucceeds(r)
    BY <1>1, <1>3, <2>4 DEF TestSucceeds, Testing
  <2>5. CASE Handle(r)
    BY <1>1, <2>5 DEF Handle, Decided
  <2>6. CASE PassThrough(r)
    BY <1>1, <2>6 DEF PassThrough, Decided
  <2>7. QED
    BY <2>1, <2>2, <2>3, <2>4, <2>5, <2>6 DEF Step
<1>5. TypeOK'
  BY <1>1, <1>2, <1>4 DEF TypeOK
\* The three facts about request r itself.
<1> DEFINE Seen == \A i \in 1..(pos'[r] - 1) : i <= Len(rules) /\ Refuses(i, r)
           Held == /\ pos'[r] <= Len(rules) =>
                         accepted'[r] <= Len(listMatch[rules[pos'[r]]])
                   /\ \A k \in 1..accepted'[r] :
                         /\ pos'[r] <= Len(rules)
                         /\ r \in Verdict[listMatch[rules[pos'[r]]][k]]
                   /\ phase'[r] \in Matched => pos'[r] <= Len(rules)
           Full == phase'[r] \in Matched => tested'[r] = accepted'[r]
           Kept == /\ known'[r] <= Len(rules)
                   /\ phase'[r] = "passed" => known'[r] < pos'[r]
<1>6. /\ \A i \in 1..(pos[r] - 1) : i <= Len(rules) /\ Refuses(i, r)
      /\ pos[r] <= Len(rules) => accepted[r] <= Len(listMatch[rules[pos[r]]])
      /\ \A k \in 1..accepted[r] : /\ pos[r] <= Len(rules)
                                   /\ r \in Verdict[listMatch[rules[pos[r]]][k]]
      /\ phase[r] \in Matched => pos[r] <= Len(rules)
      /\ phase[r] \in Matched => tested[r] = accepted[r]
      /\ known[r] <= Len(rules)
      /\ phase[r] = "passed" => known[r] < pos[r]
  BY DEF IInv, FirstMatchWins, OwnVerdicts, Exhausted, KnownRules, Current
<1>7. Seen /\ Held /\ Kept
  <2>1. CASE Arrive(r)
    <3>1. /\ pos' = pos /\ accepted' = accepted /\ phase'[r] = "testing"
          /\ known'[r] = Len(rules)
      BY <1>1, <2>1 DEF Arrive
    <3>2. Seen
      BY <1>6, <3>1
    <3>3. Held
      <4>1. phase'[r] \notin Matched
        BY <3>1 DEF Matched
      <4>2. QED
        BY <1>6, <3>1, <4>1
    <3>4. Kept
      BY <1>1, <3>1
    <3>5. QED
      BY <3>2, <3>3, <3>4
  <2>2. CASE MatcherAccepts(r)
    <3>1. /\ pos' = pos /\ phase' = phase /\ known' = known
          /\ accepted'[r] = accepted[r] + 1
          /\ pos[r] <= Len(rules) /\ accepted[r] < Len(listMatch[rules[pos[r]]])
          /\ r \in Verdict[listMatch[rules[pos[r]]][accepted[r] + 1]]
          /\ phase[r] = "testing"
      BY <1>1, <2>2 DEF MatcherAccepts, Testing, MoreMatchers, Says, Current
    <3>2. Len(listMatch[rules[pos[r]]]) \in Nat /\ accepted[r] \in Nat
      BY <1>1, <1>3, <3>1 DEF Current
    <3>3. Seen /\ Kept
      BY <1>1, <1>6, <3>1
    <3>4. accepted'[r] <= Len(listMatch[rules[pos'[r]]])
      BY <3>1, <3>2
    <3>5. ASSUME NEW k \in 1..accepted'[r]
          PROVE  pos'[r] <= Len(rules) /\ r \in Verdict[listMatch[rules[pos'[r]]][k]]
      <4>1. CASE k \in 1..accepted[r]
        BY <1>6, <3>1, <4>1
      <4>2. CASE k = accepted[r] + 1
        BY <3>1, <4>2
      <4>3. QED
        BY <3>1, <3>2, <4>1, <4>2
    <3>6. QED
      BY <3>1, <3>3, <3>4, <3>5
  <2>3. CASE MatcherRefuses(r)
    <3>1. /\ pos'[r] = pos[r] + 1 /\ phase' = phase /\ known' = known
          /\ accepted'[r] = 0 /\ phase[r] = "testing"
          /\ pos[r] <= Len(rules) /\ accepted[r] < Len(listMatch[rules[pos[r]]])
          /\ r \notin Verdict[listMatch[rules[pos[r]]][accepted[r] + 1]]
      BY <1>1, <2>3 DEF MatcherRefuses, Testing, MoreMatchers, Says, Current
    <3>2. Len(listMatch[rules[pos[r]]]) \in Nat /\ accepted[r] \in Nat
      BY <1>1, <1>3, <3>1 DEF Current
    <3>3. Refuses(pos[r], r)
      <4>1. accepted[r] + 1 \in 1..Len(listMatch[rules[pos[r]]])
        BY <3>1, <3>2
      <4>2. QED
        BY <3>1, <4>1 DEF Refuses
    <3>4. Seen
      <4>1. \A i \in 1..(pos'[r] - 1) : i \in 1..(pos[r] - 1) \/ i = pos[r]
        BY <1>1, <3>1
      <4>2. ASSUME NEW i \in 1..(pos'[r] - 1) PROVE i <= Len(rules) /\ Refuses(i, r)
        <5>1. CASE i \in 1..(pos[r] - 1)
          BY <1>6, <5>1
        <5>2. CASE i = pos[r]
          BY <3>1, <3>3, <5>2
        <5>3. QED
          BY <4>1, <5>1, <5>2
      <4>3. QED
        BY <4>2
    <3>5. Held
      <4>1. pos'[r] <= Len(rules) => Len(listMatch[rules[pos'[r]]]) \in Nat
        BY <1>1, <3>1, ElementOfSeq, LenProperties
      <4>2. phase'[r] \notin Matched
        BY <3>1 DEF Matched
      <4>3. QED
        BY <3>1, <4>1, <4>2
    <3>6. Kept
      BY <1>1, <1>6, <3>1
    <3>7. QED
      BY <3>4, <3>5, <3>6
  <2>4. CASE TestSucceeds(r)
    <3>1. /\ pos' = pos /\ known' = known /\ accepted' = accepted
          /\ phase'[r] = "matched" /\ pos[r] <= Len(rules)
      BY <1>1, <2>4 DEF TestSucceeds, Testing
    <3>2. QED
      BY <1>6, <3>1
  <2>5. CASE Handle(r)
    <3>1. /\ pos' = pos /\ known' = known /\ accepted' = accepted
          /\ phase'[r] \in {"handled", "ignored"} /\ phase[r] \in Matched
      BY <1>1, <2>5 DEF Handle, Matched
    <3>2. QED
      BY <1>6, <3>1
  <2>6. CASE PassThrough(r)
    <3>1. /\ pos' = pos /\ known' = known /\ accepted' = accepted
          /\ phase'[r] = "passed" /\ pos[r] > Len(rules)
      BY <1>1, <2>6 DEF PassThrough
    <3>2. phase'[r] \notin Matched
      BY <3>1 DEF Matched
    <3>3. QED
      BY <1>1, <1>6, <3>1, <3>2
  <2>7. QED
    BY <2>1, <2>2, <2>3, <2>4, <2>5, <2>6 DEF Step
<1>8. Full
  <2>1. CASE Arrive(r) \/ MatcherAccepts(r) \/ MatcherRefuses(r) \/ PassThrough(r)
    <3>1. phase'[r] \notin Matched
      BY <1>1, <2>1 DEF Arrive, MatcherAccepts, MatcherRefuses, PassThrough, Testing, Matched
    <3>2. QED
      BY <3>1
  <2>2. CASE TestSucceeds(r)
    <3>1. /\ tested'[r] = Len(listMatch[Current(r)]) /\ accepted' = accepted
          /\ pos[r] <= Len(rules) /\ ~(accepted[r] < Len(listMatch[Current(r)]))
      BY <1>1, <2>2 DEF TestSucceeds, Testing, MoreMatchers
    <3>2. accepted[r] <= Len(listMatch[Current(r)])
      BY <1>6, <3>1 DEF Current
    <3>3. accepted[r] \in Nat /\ Len(listMatch[Current(r)]) \in Nat
      BY <1>1, <1>3, <3>1
    <3>4. QED
      BY <3>1, <3>2, <3>3
  <2>3. CASE Handle(r)
    <3>1. phase[r] \in Matched /\ UNCHANGED <<tested, accepted>>
      BY <2>3 DEF Handle, Matched
    <3>2. QED
      BY <1>6, <3>1
  <2>4. QED
    BY <2>1, <2>2, <2>3 DEF Step
<1> HIDE DEF Seen, Held, Kept, Full
<1>9. FirstMatchWins'
  <2> SUFFICES ASSUME NEW x \in Request, NEW i \in 1..(pos'[x] - 1)
               PROVE  i <= Len(rules) /\ Refuses(i, x)
    BY <1>2 DEF FirstMatchWins, Refuses
  <2>1. CASE x = r
    BY <1>7, <2>1 DEF Seen
  <2>2. CASE x # r
    BY <1>4, <2>2 DEF IInv, FirstMatchWins
  <2>3. QED
    BY <2>1, <2>2
<1>10. OwnVerdicts'
  <2> SUFFICES ASSUME NEW x \in Request
               PROVE  /\ pos'[x] <= Len(rules) => accepted'[x] <= Len(listMatch[rules[pos'[x]]])
                      /\ \A k \in 1..accepted'[x] :
                            /\ pos'[x] <= Len(rules)
                            /\ x \in Verdict[listMatch[rules[pos'[x]]][k]]
                      /\ phase'[x] \in Matched => pos'[x] <= Len(rules)
    BY <1>2 DEF OwnVerdicts, Current
  <2>1. CASE x = r
    BY <1>7, <2>1 DEF Held
  <2>2. CASE x # r
    BY <1>4, <2>2 DEF IInv, OwnVerdicts, Current
  <2>3. QED
    BY <2>1, <2>2
<1>11. KnownRules'
  <2> SUFFICES ASSUME NEW x \in Request
               PROVE  /\ known'[x] <= Len(rules)
                      /\ phase'[x] = "passed" => known'[x] < pos'[x]
    BY <1>2 DEF KnownRules
  <2>1. CASE x = r
    BY <1>7, <2>1 DEF Kept
  <2>2. CASE x # r
    BY <1>4, <2>2 DEF IInv, KnownRules
  <2>3. QED
    BY <2>1, <2>2
<1>12. Exhausted'
  <2> SUFFICES ASSUME NEW x \in Request, phase'[x] \in Matched
               PROVE  tested'[x] = accepted'[x]
    BY DEF Exhausted
  <2>1. CASE x = r
    BY <1>8, <2>1 DEF Full
  <2>2. CASE x # r
    BY <1>4, <2>2 DEF IInv, Exhausted
  <2>3. QED
    BY <2>1, <2>2
<1>13. QED
  BY <1>5, <1>9, <1>10, <1>11, <1>12 DEF IInv

LEMMA IInvInvariant == Spec => []IInv
<1>1. IInv /\ [Next]_vars => IInv'
  <2> SUFFICES ASSUME IInv, [Next]_vars PROVE IInv'
    OBVIOUS
  <2>1. ASSUME NEW rule \in Rule, AddRule(rule) \/ Then(rule) PROVE IInv'
    BY <2>1, AddingRulesKeepsIInv
  <2>2. ASSUME NEW rule \in Rule, NEW m \in Matcher, Match(rule, m) PROVE IInv'
    BY <2>2, AddingMatchersKeepsIInv
  <2>3. ASSUME NEW r \in Request, Arrive(r) \/ Step(r) PROVE IInv'
    BY <2>3, StepKeepsIInv
  <2>4. CASE UNCHANGED vars
    BY <2>4 DEF vars, IInv, TypeOK, FirstMatchWins, OwnVerdicts, Exhausted, KnownRules,
                Refuses, Current
  <2>5. QED
    BY <2>1, <2>2, <2>3, <2>4 DEF Next
<1>2. QED
  BY InitIInv, <1>1, PTL DEF Spec

-----------------------------------------------------------------------------

\* The types of the dispatch's state hold in every run, for every program that
\* adds rules, matchers and handlers.
THEOREM TypeCorrect == Spec => []TypeOK
<1>1. IInv => TypeOK
  BY DEF IInv
<1>2. QED
  BY <1>1, IInvInvariant, PTL

\* The loop of handleExpressRequest and handleConnection gives a request to the
\* first rule that accepts it, although both arrays may grow at every await.
THEOREM FirstMatch == Spec => []FirstMatchWins
<1>1. IInv => FirstMatchWins
  BY DEF IInv
<1>2. QED
  BY <1>1, IInvInvariant, PTL

\* A request is handled by a rule of which all matchers accept it that the rule had
\* when test() returned.
THEOREM MatchedByItsOwnRule == Spec => []HandledByAMatch
<1>1. IInv => HandledByAMatch
  <2> SUFFICES ASSUME IInv, NEW r \in Request, phase[r] \in Matched
               PROVE  /\ pos[r] <= Len(rules)
                      /\ tested[r] <= Len(listMatch[Current(r)])
                      /\ \A k \in 1..tested[r] : r \in Verdict[listMatch[Current(r)][k]]
    BY DEF HandledByAMatch
  <2>1. tested[r] = accepted[r] /\ pos[r] <= Len(rules)
    BY DEF IInv, Exhausted, OwnVerdicts
  <2>2. QED
    BY <2>1 DEF IInv, OwnVerdicts
<1>2. QED
  BY <1>1, IInvInvariant, PTL

\* A request reaches the pass-through handler only if every rule that was added
\* before it came refuses it.
THEOREM PassedUnmatched == Spec => []PassedOnlyIfRefused
<1>1. IInv => PassedOnlyIfRefused
  <2> SUFFICES ASSUME IInv, NEW r \in Request, phase[r] = "passed",
                      NEW i \in 1..known[r]
               PROVE  Refuses(i, r)
    BY DEF PassedOnlyIfRefused
  <2>1. known[r] \in Nat /\ pos[r] \in Nat /\ known[r] < pos[r]
    BY DEF IInv, TypeOK, KnownRules
  <2>2. i \in 1..(pos[r] - 1)
    BY <2>1
  <2>3. QED
    BY <2>2 DEF IInv, FirstMatchWins
<1>2. QED
  BY <1>1, IInvInvariant, PTL
-----------------------------------------------------------------------------
(***************************************************************************)
(* The fetch of a request no rule claimed: HttpPassThrough, for any number *)
(* of requests, lists and agents.                                          *)
(***************************************************************************)

\* The index a request will take after it took i.
After(i) == IF i + 1 >= agents THEN 0 ELSE i + 1

\* Once a request took an agent of the current list, the list has agents and the
\* index is where that request left it.
IndexFollows ==
    taken # <<>> => agents > 0 /\ agentCurrent = After(taken[Len(taken)])

\* What is known of a fetch that is over.
Settled == {"complete", "failed", "aborted"}

\* How far a request is and how far its fetch is: the listeners are attached when the
\* fetch is answered, the response ends after the body did, and a 'close' that was
\* heard ended a body that was still going on.
InStep ==
    \A r \in Passed :
        /\ at[r] = "new" => upstream[r] = "none"
        /\ at[r] = "injecting" => upstream[r] = "complete"
        /\ r \in heard => upstream[r] \in Settled \cup {"streaming"}
        /\ r \in ended => upstream[r] \in Settled
        /\ r \in gone => r \in closed
        /\ r \in closed /\ r \notin missed => upstream[r] \in Settled

\* What was said to the client so far: nothing before the fetch is answered or while
\* a body is collected, the destination's head while it is piped, and the truth when
\* the fetch is over, but for a handler that threw or whose callback is awaited.
ToldSoFar ==
    \A r \in Passed :
        /\ at[r] \in {"new", "fetching", "buffering", "injecting"} => headers[r] = "none"
        /\ at[r] = "piping" => headers[r] = "forwarded"
        /\ at[r] = "injecting" => r \in inject
        /\ upstream[r] \in {"none", "pending"} => at[r] \in {"new", "fetching"}
        /\ upstream[r] = "streaming" =>
              /\ r \in heard
              /\ r \in inject => at[r] = "buffering"
              /\ r \notin inject => at[r] \in {"piping", "thrown"}
        /\ FetchOver(r) => AnsweredAsFetched(r) \/ at[r] \in {"thrown", "injecting"}

\* The inductive invariant of the fetches.
FetchIInv == FetchTypeOK /\ AgentsRotate /\ IndexFollows /\ InStep /\ ToldSoFar

\* The next index of a list of n agents, written as the code writes it and as a
\* remainder.
LEMMA NextIndex ==
    ASSUME NEW n \in Nat \ {0}, NEW i \in 0..(n - 1)
    PROVE  (i + 1) % n = IF i + 1 >= n THEN 0 ELSE i + 1
<1>1. CASE i + 1 = n
  <2>1. n % n = 0
    BY SMT
  <2>2. QED
    BY <1>1, <2>1
<1>2. CASE i + 1 < n
  <2>1. \A k \in 0..(n - 1) : k % n = k
    BY SMT
  <2>2. QED
    BY <1>2, <2>1
<1>3. QED
  BY <1>1, <1>2

LEMMA FetchInitIInv == FetchInit => FetchIInv
<1> SUFFICES ASSUME FetchInit PROVE FetchIInv
  OBVIOUS
<1>1. <<>> \in Seq(Nat) /\ Len(<<>>) = 0
  BY EmptySeq
<1>2. FetchTypeOK
  BY <1>1, BoundsAssumption DEF FetchInit, FetchTypeOK
<1>3. AgentsRotate /\ IndexFollows
  BY <1>1 DEF FetchInit, AgentsRotate, IndexFollows
<1>4. InStep /\ ToldSoFar
  BY DEF FetchInit, InStep, ToldSoFar, FetchOver
<1>5. QED
  BY <1>2, <1>3, <1>4 DEF FetchIInv

\* What the proofs about the agents need of the types.
AgentTypes ==
    /\ agents \in 0..MaxAgents /\ agentCurrent \in Nat
    /\ lists \in 0..MaxLists /\ taken \in Seq(Nat)

\* The agents of a step: none, a new list, or the next agent.
LEMMA AgentStep ==
    ASSUME FetchIInv,
           \/ UNCHANGED agentVars
           \/ \E n \in 0..MaxAgents : SetAgents(n)
           \/ TakeAgent
    PROVE  AgentTypes' /\ AgentsRotate' /\ IndexFollows'
<1>0. AgentTypes /\ AgentsRotate /\ IndexFollows /\ MaxAgents \in Nat
  BY BoundsAssumption DEF FetchIInv, FetchTypeOK, AgentTypes
<1>1. CASE UNCHANGED agentVars
  BY <1>0, <1>1 DEF agentVars, AgentTypes, AgentsRotate, IndexFollows, After
<1>2. CASE \E n \in 0..MaxAgents : SetAgents(n)
  <2>1. <<>> \in Seq(Nat) /\ Len(<<>>) = 0
    BY EmptySeq
  <2>2. AgentTypes'
    BY <1>0, <1>2, <2>1, BoundsAssumption DEF SetAgents, AgentTypes
  <2>3. AgentsRotate' /\ IndexFollows'
    BY <1>2, <2>1 DEF SetAgents, AgentsRotate, IndexFollows
  <2>4. QED
    BY <2>2, <2>3
<1>3. CASE TakeAgent /\ agents # 0
  <2> DEFINE n == Len(taken)
  <2>1. /\ taken' = Append(taken, agentCurrent)
        /\ agentCurrent' = After(agentCurrent)
        /\ agents' = agents /\ lists' = lists
    BY <1>3 DEF TakeAgent, After
  <2>2. /\ taken \in Seq(Nat) /\ n \in Nat
        /\ taken' \in Seq(Nat) /\ Len(taken') = n + 1
        /\ \A k \in 1..n : taken'[k] = taken[k] /\ taken[k] \in Nat
        /\ taken'[n + 1] = agentCurrent
    BY <1>0, <2>1, AppendProperties, ElementOfSeq, LenProperties DEF AgentTypes
  <2>3. taken # <<>> <=> n > 0
    BY <2>2, EmptySeq
  <2> HIDE DEF n
  <2>4. AgentTypes'
    BY <1>0, <2>1, <2>2 DEF AgentTypes, After
  <2>5. IndexFollows'
    <3>1. taken'[Len(taken')] = agentCurrent /\ agents > 0
      BY <1>0, <1>3, <2>2 DEF AgentTypes
    <3>2. QED
      BY <2>1, <3>1 DEF IndexFollows, After
  <2>6. ASSUME NEW k \in 2..Len(taken')
        PROVE  /\ taken'[k] < agents'
               /\ taken'[k - 1] < agents' => taken'[k] = (taken'[k - 1] + 1) % agents'
    <3>1. CASE k \in 2..n
      <4>1. k \in 2..Len(taken) /\ k \in 1..n /\ (k - 1) \in 1..n
        BY <2>2, <3>1 DEF n
      <4>2. QED
        BY <1>0, <2>1, <2>2, <4>1 DEF AgentsRotate
    <3>2. CASE k = n + 1 /\ n > 0
      <4> DEFINE last == taken[n]
      <4>1. /\ agentCurrent = After(last) /\ last \in Nat
            /\ taken'[k] = agentCurrent /\ taken'[k - 1] = last
        BY <1>0, <2>2, <2>3, <3>2 DEF IndexFollows, n
      <4> HIDE DEF last
      <4>2. agents \in Nat \ {0} /\ agentCurrent < agents
        BY <1>0, <1>3, <4>1 DEF After, AgentTypes
      <4>3. last < agents => agentCurrent = (last + 1) % agents
        <5> SUFFICES ASSUME last < agents PROVE agentCurrent = (last + 1) % agents
          OBVIOUS
        <5>1. last \in 0..(agents - 1)
          BY <4>1, <4>2
        <5>2. QED
          BY <4>1, <4>2, <5>1, NextIndex DEF After
      <4>4. QED
        BY <2>1, <4>1, <4>2, <4>3
    <3>3. QED
      BY <2>2, <3>1, <3>2
  <2>7. AgentsRotate'
    BY <2>6 DEF AgentsRotate
  <2>8. QED
    BY <2>4, <2>5, <2>7
<1>4. CASE TakeAgent /\ agents = 0
  BY <1>1, <1>4 DEF TakeAgent
<1>5. QED
  BY <1>1, <1>2, <1>3, <1>4

\* The types of what concerns one request.
RequestTypes ==
    /\ at \in [Passed -> {"new", "fetching", "buffering", "injecting", "piping",
                          "returned", "thrown"}]
    /\ upstream \in [Passed -> Settled \cup {"none", "pending", "streaming"}]
    /\ headers \in [Passed -> {"none", "forwarded", "error"}]
    /\ inject \in SUBSET Passed /\ heard \in SUBSET Passed /\ closed \in SUBSET Passed
    /\ gone \in SUBSET Passed /\ ended \in SUBSET Passed /\ missed \in SUBSET Passed

LEMMA TypesSplit == FetchTypeOK <=> AgentTypes /\ RequestTypes
  BY DEF FetchTypeOK, AgentTypes, RequestTypes, Settled

\* What a step of the destination or of the callback does to one request.
LEMMA AnswerStep ==
    ASSUME RequestTypes, InStep, NEW r \in Passed,
           HandlePassThrough(r) \/ Destination(r) \/ InjectEnds(r)
    PROVE  RequestTypes' /\ InStep'
<1>1. CASE HandlePassThrough(r)
  BY <1>1 DEF RequestTypes, InStep, HandlePassThrough, Goto, Upstream, Settled
<1>2. CASE FetchFails(r)
  BY <1>2 DEF RequestTypes, InStep, FetchFails, Goto, Upstream, WriteHead, End, Settled
<1>3. CASE FetchAnswers(r)
  BY <1>3 DEF RequestTypes, InStep, FetchAnswers, Goto, Upstream, WriteHead, Settled
<1>4. CASE BodyEnds(r)
  BY <1>4 DEF RequestTypes, InStep, BodyEnds, Goto, Upstream, End, Settled
<1>5. CASE BodyFails(r)
  BY <1>5 DEF RequestTypes, InStep, BodyFails, BodyError, Goto, Upstream, WriteHead, End, Settled
<1>6. CASE InjectReturns(r)
  BY <1>6 DEF RequestTypes, InStep, InjectReturns, Goto, WriteHead, End, Settled
<1>7. CASE InjectThrows(r)
  BY <1>7 DEF RequestTypes, InStep, InjectThrows, Goto, Settled
<1>8. CASE HeadRefused(r)
  BY <1>8 DEF RequestTypes, InStep, HeadRefused, Goto, Upstream, Settled
<1>9. QED
  BY <1>1, <1>2, <1>3, <1>4, <1>5, <1>6, <1>7, <1>8 DEF Destination, InjectEnds

\* The same for what was said to the client.
LEMMA ToldStep ==
    ASSUME RequestTypes, InStep, ToldSoFar, NEW r \in Passed,
           HandlePassThrough(r) \/ Destination(r) \/ InjectEnds(r)
    PROVE  ToldSoFar'
<1>1. CASE HandlePassThrough(r)
  BY <1>1 DEF RequestTypes, ToldSoFar, FetchOver, AnsweredAsFetched, Piped, InStep,
              HandlePassThrough, Goto, Upstream, Settled
<1>2. CASE FetchFails(r)
  BY <1>2 DEF RequestTypes, ToldSoFar, FetchOver, AnsweredAsFetched, Piped, InStep,
              FetchFails, Goto, Upstream, WriteHead, End, Settled
<1>3. CASE FetchAnswers(r)
  BY <1>3 DEF RequestTypes, ToldSoFar, FetchOver, AnsweredAsFetched, Piped, InStep,
              FetchAnswers, Goto, Upstream, WriteHead, Settled
<1>4. CASE HeadRefused(r)
  BY <1>4 DEF RequestTypes, ToldSoFar, FetchOver, AnsweredAsFetched, Piped, InStep,
              HeadRefused, Goto, Upstream, Settled
<1>5. CASE BodyEnds(r)
  BY <1>5 DEF RequestTypes, ToldSoFar, FetchOver, AnsweredAsFetched, Piped, InStep,
              BodyEnds, Goto, Upstream, End, Settled
<1>6. CASE BodyFails(r)
  BY <1>6 DEF RequestTypes, ToldSoFar, FetchOver, AnsweredAsFetched, Piped, InStep,
              BodyFails, BodyError, Goto, Upstream, WriteHead, End, Settled
<1>7. CASE InjectReturns(r)
  BY <1>7 DEF RequestTypes, ToldSoFar, FetchOver, AnsweredAsFetched, Piped, InStep,
              InjectReturns, Goto, WriteHead, End, Settled
<1>8. CASE InjectThrows(r)
  BY <1>8 DEF RequestTypes, ToldSoFar, FetchOver, AnsweredAsFetched, Piped, InStep,
              InjectThrows, Goto, Settled
<1>9. QED
  BY <1>1, <1>2, <1>3, <1>4, <1>5, <1>6, <1>7, <1>8 DEF Destination, InjectEnds

\* A 'close' of the request, whether its client left or its body was read.
LEMMA CloseStep ==
    ASSUME RequestTypes, InStep, ToldSoFar, NEW r \in Passed,
           ClientLeaves(r) \/ UploadRead(r)
    PROVE  RequestTypes' /\ InStep' /\ ToldSoFar'
<1>1. /\ RequestCloses(r) /\ UNCHANGED <<inject, heard>>
      /\ gone' \in {gone, gone \cup {r}}
  BY DEF ClientLeaves, UploadRead
<1>2. CASE r \in heard \ closed /\ r \notin ended /\ upstream[r] = "streaming"
  <2>1. RequestTypes' /\ InStep'
    BY <1>1, <1>2 DEF RequestTypes, InStep, RequestCloses, BodyError, Goto, Upstream,
                      WriteHead, End, Settled
  <2>2. ToldSoFar'
    BY <1>1, <1>2 DEF RequestTypes, ToldSoFar, FetchOver, AnsweredAsFetched, Piped,
                      RequestCloses, BodyError, Goto, Upstream, WriteHead, End, Settled
  <2>3. QED
    BY <2>1, <2>2
<1>3. CASE ~(r \in heard \ closed /\ r \notin ended /\ upstream[r] = "streaming")
  <2>1. /\ UNCHANGED <<at, upstream, headers, ended>>
        /\ closed' = closed \cup {r}
        /\ missed' = IF r \in heard \cup closed THEN missed ELSE missed \cup {r}
    BY <1>1, <1>3 DEF RequestCloses
  <2>2. RequestTypes'
    BY <1>1, <2>1 DEF RequestTypes
  <2>3. r \notin missed' => upstream[r] \in Settled
    BY <1>3, <2>1 DEF InStep
  <2>4. InStep'
    BY <1>1, <2>1, <2>3 DEF InStep
  <2>5. ToldSoFar'
    BY <1>1, <2>1 DEF ToldSoFar, FetchOver, AnsweredAsFetched, Piped
  <2>6. QED
    BY <2>2, <2>4, <2>5
<1>4. QED
  BY <1>2, <1>3

LEMMA FetchIInvInvariant == FetchSpec => []FetchIInv
<1>1. ASSUME FetchIInv, [FetchNext]_fetchVars PROVE FetchIInv'
  <2>0. RequestTypes /\ InStep /\ ToldSoFar
    BY <1>1, TypesSplit DEF FetchIInv
  <2>1. AgentTypes' /\ AgentsRotate' /\ IndexFollows'
    <3>1. \/ UNCHANGED agentVars
          \/ \E n \in 0..MaxAgents : SetAgents(n)
          \/ TakeAgent
      <4>1. CASE \E r \in Passed : HandlePassThrough(r)
        BY <4>1 DEF HandlePassThrough
      <4>2. CASE \E r \in Passed : Destination(r) \/ InjectEnds(r)
        BY <4>2 DEF Destination, InjectEnds, FetchFails, FetchAnswers, HeadRefused, BodyEnds,
                    BodyFails, InjectReturns, InjectThrows
      <4>3. CASE \E r \in Passed : ClientLeaves(r) \/ UploadRead(r)
        BY <4>3 DEF ClientLeaves, UploadRead
      <4>4. CASE UNCHANGED fetchVars
        BY <4>4 DEF fetchVars
      <4>5. QED
        BY <1>1, <4>1, <4>2, <4>3, <4>4 DEF FetchNext
    <3>2. QED
      BY <1>1, <3>1, AgentStep
  <2>2. RequestTypes' /\ InStep' /\ ToldSoFar'
    <3>1. CASE \E n \in 0..MaxAgents : SetAgents(n)
      BY <2>0, <3>1 DEF SetAgents, requestVars, RequestTypes, InStep, ToldSoFar,
                          FetchOver, AnsweredAsFetched, Piped
    <3>2. CASE \E r \in Passed : HandlePassThrough(r) \/ Destination(r) \/ InjectEnds(r)
      BY <2>0, <3>2, AnswerStep, ToldStep
    <3>3. CASE \E r \in Passed : ClientLeaves(r) \/ UploadRead(r)
      BY <2>0, <3>3, CloseStep
    <3>4. CASE UNCHANGED fetchVars
      BY <2>0, <3>4 DEF fetchVars, requestVars, RequestTypes, InStep, ToldSoFar,
                        FetchOver, AnsweredAsFetched, Piped
    <3>5. QED
      BY <1>1, <3>1, <3>2, <3>3, <3>4 DEF FetchNext
  <2>3. FetchTypeOK'
    BY <2>1, <2>2 DEF FetchTypeOK, AgentTypes, RequestTypes, Settled
  <2>4. QED
    BY <2>1, <2>2, <2>3 DEF FetchIInv
<1>2. QED
  BY <1>1, FetchInitIInv, PTL DEF FetchSpec

\* The agent list and the fetches keep their types.
THEOREM FetchTypeCorrect == FetchSpec => []FetchTypeOK
<1>1. FetchIInv => FetchTypeOK
  BY DEF FetchIInv
<1>2. QED
  BY <1>1, FetchIInvInvariant, PTL

\* The destination of a client that left is let go, unless its 'close' came before the
\* fetch was answered and the listener attached (http-handler.ts:84-88).
THEOREM AbortedUnlessMissed == FetchSpec => []OnlyMissedCloses
<1>1. FetchIInv => OnlyMissedCloses
  BY DEF FetchIInv, FetchTypeOK, InStep, OnlyMissedCloses, Settled
<1>2. QED
  BY <1>1, FetchIInvInvariant, PTL

\* A fetch that is over was answered to the end and as it went, or its callback is
\* being awaited, or handle() threw: the safety of EveryRequestEnds
\* (http-handler.ts:69-118), which leaves to fairness that the callback returns.
THEOREM OverIsAnswered ==
    FetchSpec => [](\A r \in Passed : FetchOver(r) =>
                       AnsweredAsFetched(r) \/ at[r] \in {"thrown", "injecting"})
<1>1. FetchIInv => \A r \in Passed : FetchOver(r) =>
                      AnsweredAsFetched(r) \/ at[r] \in {"thrown", "injecting"}
  BY DEF FetchIInv, ToldSoFar
<1>2. QED
  BY <1>1, FetchIInvInvariant, PTL

\* The requests take the agents of a list in turn, after the first one
\* (http-handler.ts:60-67).
THEOREM AgentsInTurn == FetchSpec => []AgentsRotate
<1>1. FetchIInv => AgentsRotate
  BY DEF FetchIInv
<1>2. QED
  BY <1>1, FetchIInvInvariant, PTL

-----------------------------------------------------------------------------
(***************************************************************************)
(* The tunnel of a CONNECT request, for any clients, any preface and any   *)
(* way the network cuts what they send into chunks.                        *)
(***************************************************************************)

(***************************************************************************)
(* The inductive invariant, in three parts: what was read is what arrived, *)
(* a client that waits has sent nothing but its request, and the bytes of  *)
(* a tunnel are the client's, each in one place.                           *)
(***************************************************************************)

\* What is sniffed: the bytes of the client from `base` on.
Layer == SubSeq(stream, base, Len(stream))

\* The buffer holds the last bytes that arrived, and before them, while the
\* preface is read, is what was read of it.
Reads ==
    /\ Len(buf) <= sent
    /\ \A i \in 1..Len(buf) : buf[i] = (sent - Len(buf)) + i
    /\ base <= sent + 1
    /\ stage \notin {"tunnel", "destroyed"} =>
           /\ Len(past) + Len(buf) = (sent - base) + 1
           /\ \A i \in 1..Len(past) : past[i] = (base + i) - 1
    /\ stage \notin {"preface", "destroyed"} => past = <<>>
    /\ stage = "preface" => past # <<>> /\ stream[base] = Preface[1]
    /\ stage \in Servers => stage = ServerOf(Layer)

\* A client that waits for the answer to its request has sent nothing else.
Waiting ==
    /\ waits /\ stream[1] = Connect /\ c.out = <<>> => sent <= 1
    /\ stage \in Sniffing \cup Servers /\ base = 1 => c.out = <<>>
    /\ stage = "answering" => base >= 2
    /\ dropped # <<>> => ~waits

\* The bytes of a tunnel.
Joined ==
    /\ Positions(p.out) \cup Positions(head) \cup Positions(buf) = 2..sent
    /\ Len(p.out) + Len(head) + Len(buf) = sent - 1
    /\ \A i, j \in 1..Len(p.out) :
          i < j /\ p.out[i] > p.out[j] => ~waits /\ p.out[i] \in early
    /\ \A i \in 1..Len(p.out) : \A j \in 1..Len(buf) : p.out[i] < buf[j]
    /\ \A i \in 1..Len(head) : \A j \in 1..Len(buf) : head[i] < buf[j]
    /\ \A i, j \in 1..Len(head) : i < j => head[i] < head[j]
    /\ head # <<>> => ~waits
    /\ ~p.up => Positions(p.out) \subseteq early

Ends ==
    /\ ~Tunnelling => p = Socket(FALSE) /\ head = <<>> /\ early = {}
    /\ stage \notin {"tunnel", "destroyed"} => ~Over(c)
    /\ EndsTogether
    /\ Tunnelling /\ ~Over(p) => Joined

TunnelIInv == TunnelTypeOK /\ Reads /\ Waiting /\ Ends

-----------------------------------------------------------------------------
(***************************************************************************)
(* Operators                                                               *)
(***************************************************************************)

LEMMA PositionsOf ==
    ASSUME NEW S, NEW s \in Seq(S), NEW r \in Seq(S)
    PROVE  /\ Positions(s \o r) = Positions(s) \cup Positions(r)
           /\ s \o r \in Seq(S) /\ Len(s \o r) = Len(s) + Len(r)
           /\ \A i \in 1..Len(s) : (s \o r)[i] = s[i]
           /\ \A i \in 1..Len(r) : (s \o r)[Len(s) + i] = r[i]
<1> DEFINE n == Len(s)
           m == Len(r)
           t == s \o r
<1>1. /\ n \in Nat /\ m \in Nat /\ t \in Seq(S) /\ Len(t) = n + m
      /\ \A i \in 1..(n + m) : t[i] = IF i <= n THEN s[i] ELSE r[i - n]
  BY ConcatProperties, LenProperties
<1> HIDE DEF t, n, m
<1>2. \A i \in 1..n : i \in 1..(n + m) /\ t[i] = s[i]
  BY <1>1
<1>3. \A i \in 1..m : n + i \in 1..(n + m) /\ t[n + i] = r[i]
  <2> TAKE i \in 1..m
  <2>1. n + i \in 1..(n + m) /\ ~(n + i <= n) /\ (n + i) - n = i
    BY <1>1
  <2>2. QED
    BY <1>1, <2>1
<1>4. \A i \in 1..(n + m) : i \in 1..n \/ (i - n \in 1..m /\ t[i] = r[i - n])
  BY <1>1
<1>5. Positions(t) = Positions(s) \cup Positions(r)
  <2>1. Positions(t) = {t[i] : i \in 1..(n + m)}
    BY <1>1 DEF Positions
  <2>2. Positions(s) = {s[i] : i \in 1..n} /\ Positions(r) = {r[i] : i \in 1..m}
    BY DEF Positions, n, m
  <2>3. QED
    BY <1>2, <1>3, <1>4, <2>1, <2>2
<1>6. QED
  BY <1>1, <1>2, <1>3, <1>5 DEF t, n, m

LEMMA PositionsOfNothing == Positions(<<>>) = {}
<1>1. Len(<<>>) = 0
  BY EmptySeq
<1>2. QED
  BY <1>1 DEF Positions

\* write() ends or destroys no socket and takes nothing back.
LEMMA WriteKeeps ==
    ASSUME NEW T, NEW s \in Sockets(T), NEW d \in Seq(T)
    PROVE  /\ Write(s, d) \in Sockets(T)
           /\ Over(Write(s, d)) <=> Over(s)
           /\ Write(s, d).up = s.up
           /\ ~Over(s) => Write(s, d).out = s.out \o d
           /\ s.out # <<>> => Write(s, d).out # <<>>
<1>1. s.out \in Seq(T)
  BY DEF Sockets
<1>2. CASE s.dead
  BY <1>2 DEF Write, Over
<1>3. CASE ~s.dead /\ s.ended
  BY <1>3 DEF Write, Over, Sockets
<1>4. CASE ~s.dead /\ ~s.ended
  <2>1. Write(s, d) = [s EXCEPT !.out = s.out \o d]
    BY <1>4 DEF Write
  <2>2. s.out \o d \in Seq(T) /\ (s.out # <<>> => s.out \o d # <<>>)
    BY <1>1, ConcatProperties, ConcatEqualIffEmpty
  <2> DEFINE o == s.out \o d
  <2> HIDE DEF o
  <2>3. Write(s, d) = [s EXCEPT !.out = o] /\ o \in Seq(T)
    BY <2>1, <2>2 DEF o
  <2>4. /\ Write(s, d) \in Sockets(T) /\ Write(s, d).out = o /\ Write(s, d).up = s.up
        /\ Over(Write(s, d)) <=> Over(s)
    BY <2>3 DEF Sockets, Over
  <2>5. QED
    BY <2>2, <2>4 DEF o
<1>5. QED
  BY <1>2, <1>3, <1>4

LEMMA EndKeeps ==
    ASSUME NEW T, NEW s \in Sockets(T)
    PROVE  /\ EndSocket(s) \in Sockets(T) /\ Over(EndSocket(s))
           /\ EndSocket(s).out = s.out
           /\ Destroy(s) \in Sockets(T) /\ Over(Destroy(s)) /\ Destroy(s).out = s.out
  BY DEF EndSocket, Destroy, Over, Sockets

LEMMA Lengths ==
    ASSUME TunnelTypeOK
    PROVE  /\ stream \in Seq(Byte) /\ Len(stream) \in Nat
           /\ sent \in Nat /\ sent <= Len(stream) /\ base \in Nat /\ base >= 1
           /\ buf \in Seq(1..Len(stream)) /\ Len(buf) \in Nat
           /\ past \in Seq(1..Len(stream)) /\ Len(past) \in Nat
           /\ head \in Seq(1..Len(stream)) /\ Len(head) \in Nat
           /\ p.out \in Seq(1..Len(stream)) /\ Len(p.out) \in Nat
           /\ c.out \in Seq({"200", "data", "500"})
<1>1. stream \in Seq(Byte) /\ Len(stream) \in Nat
  BY PrefaceAssumption, LenProperties DEF TunnelTypeOK
<1>2. /\ buf \in Seq(1..Len(stream)) /\ past \in Seq(1..Len(stream))
      /\ head \in Seq(1..Len(stream)) /\ p.out \in Seq(1..Len(stream))
      /\ c.out \in Seq({"200", "data", "500"})
  BY DEF TunnelTypeOK, Sockets
<1>3. Len(buf) \in Nat /\ Len(past) \in Nat /\ Len(head) \in Nat /\ Len(p.out) \in Nat
  BY <1>2, LenProperties
<1>4. sent \in Nat /\ sent <= Len(stream) /\ base \in Nat /\ base >= 1
  BY <1>1 DEF TunnelTypeOK
<1>5. QED
  BY <1>1, <1>2, <1>3, <1>4

-----------------------------------------------------------------------------
(***************************************************************************)
(* The client                                                              *)
(***************************************************************************)

LEMMA TunnelInitIInv == TunnelInit => TunnelIInv
<1> SUFFICES ASSUME TunnelInit PROVE TunnelIInv
  OBVIOUS
<1>1. Len(<<>>) = 0 /\ \A S : <<>> \in Seq(S)
  BY EmptySeq
<1>2. /\ stream \in Streams /\ stream \in Seq(Byte) /\ Len(stream) \in Nat
      /\ sent = 0 /\ fin = FALSE
      /\ buf = <<>> /\ past = <<>> /\ stage = "readable" /\ tls \in BOOLEAN
      /\ ignore \in BOOLEAN /\ waits \in BOOLEAN /\ base = 1 /\ dropped = <<>>
      /\ head = <<>> /\ early = {} /\ replies = 0 /\ MaxReply \in Nat
      /\ c = Socket(TRUE) /\ p = Socket(FALSE)
  BY PrefaceAssumption, ConnectAssumption, LenProperties DEF TunnelInit, ComboInit
<1>3. /\ c \in Sockets({"200", "data", "500"}) /\ p \in Sockets(1..Len(stream))
      /\ ~Over(c) /\ c.out = <<>>
  BY <1>1, <1>2 DEF Sockets, Socket, Over
<1>4. TunnelTypeOK
  <2>1. {buf, past, dropped, head} \subseteq Seq(1..Len(stream))
    BY <1>1, <1>2
  <2>2. sent \in 0..Len(stream)
    BY <1>2
  <2>4. base \in 1..(Len(stream) + 1)
    BY <1>2
  <2>5. replies \in 0..MaxReply
    BY <1>2
  <2>6. early \subseteq 1..Len(stream) /\ {fin, tls, ignore, waits} \subseteq BOOLEAN
    BY <1>2
  <2>7. stage \in Sniffing
    BY <1>2 DEF Sniffing
  <2>8. QED
    BY <1>2, <1>3, <2>1, <2>2, <2>4, <2>5, <2>6, <2>7 DEF TunnelTypeOK
<1>5. Reads
  BY <1>1, <1>2 DEF Reads, Sniffing, Servers
<1>6. Waiting
  <2>1. sent <= 1
    BY <1>2
  <2>2. c.out = <<>>
    BY <1>3
  <2>3. dropped = <<>>
    BY <1>2
  <2>4. stage # "answering"
    BY <1>2
  <2>5. QED
    BY <2>1, <2>2, <2>3, <2>4 DEF Waiting
<1>7. Ends
  BY <1>2, <1>3 DEF Ends, Tunnelling, EndsTogether
<1>8. QED
  BY <1>4, <1>5, <1>6, <1>7 DEF TunnelIInv

\* A chunk follows what the buffer holds.
LEMMA ChunkKeeps ==
    ASSUME TunnelIInv, NEW n \in 1..Len(stream), ClientSends(n)
    PROVE  TunnelIInv'
<1> DEFINE new == [i \in 1..n |-> sent + i]
<1>1. /\ UNCHANGED <<stream, fin, past, stage, tls, ignore, waits, base, dropped,
                     head, early, c, p, replies>>
      /\ sent' = sent + n /\ sent + n <= Len(stream) /\ buf' = buf \o new
      /\ waits /\ stream[1] = Connect => Answered \/ (sent = 0 /\ n = 1)
  BY DEF ClientSends, Chunk, tunnelVars
<1>2. TunnelTypeOK /\ Reads /\ Waiting /\ Ends
  BY DEF TunnelIInv
<1>3. /\ Len(stream) \in Nat /\ n \in Nat /\ n >= 1 /\ sent \in Nat /\ base \in Nat
      /\ buf \in Seq(1..Len(stream)) /\ Len(buf) \in Nat /\ Len(past) \in Nat
      /\ Len(p.out) \in Nat /\ Len(head) \in Nat
  BY <1>2, Lengths
<1>4. new \in Seq(1..Len(stream)) /\ Len(new) = n /\ \A i \in 1..n : new[i] = sent + i
  <2>1. \A i \in 1..n : sent + i \in 1..Len(stream)
    BY <1>1, <1>3
  <2>2. QED
    BY <1>3, <2>1
<1> HIDE DEF new
<1>5. /\ buf' \in Seq(1..Len(stream)) /\ Len(buf') = Len(buf) + n
      /\ Positions(buf') = Positions(buf) \cup Positions(new)
      /\ \A i \in 1..Len(buf) : buf'[i] = buf[i]
      /\ \A i \in 1..n : buf'[Len(buf) + i] = sent + i
  <2> DEFINE t == buf \o new
             S == 1..Len(stream)
  <2>0. buf \in Seq(S) /\ new \in Seq(S)
    BY <1>3, <1>4
  <2> HIDE DEF S
  <2>1. /\ Positions(t) = Positions(buf) \cup Positions(new)
        /\ t \in Seq(S) /\ Len(t) = Len(buf) + Len(new)
        /\ \A i \in 1..Len(buf) : t[i] = buf[i]
        /\ \A i \in 1..Len(new) : t[Len(buf) + i] = new[i]
    BY <2>0, PositionsOf
  <2> HIDE DEF t
  <2>2. buf' = t
    BY <1>1 DEF t
  <2>3. QED
    BY <1>4, <2>1, <2>2 DEF S
<1>6. TunnelTypeOK'
  BY <1>1, <1>2, <1>3, <1>5 DEF TunnelTypeOK
<1>7. Len(buf) <= sent /\ \A i \in 1..Len(buf) : buf[i] = (sent - Len(buf)) + i
  BY <1>2 DEF Reads
<1>8. Reads'
  <2>1. Len(buf') <= sent'
    BY <1>1, <1>3, <1>5, <1>7
  <2>2. \A i \in 1..Len(buf') : buf'[i] = (sent' - Len(buf')) + i
    <3> SUFFICES ASSUME NEW i \in 1..Len(buf') PROVE buf'[i] = (sent' - Len(buf')) + i
      OBVIOUS
    <3>1. i \in Nat /\ sent' - Len(buf') = sent - Len(buf)
      BY <1>1, <1>3, <1>5
    <3>2. CASE i <= Len(buf)
      BY <1>3, <1>5, <1>7, <3>1, <3>2
    <3>3. CASE i > Len(buf)
      <4>1. i - Len(buf) \in 1..n /\ Len(buf) + (i - Len(buf)) = i
        BY <1>3, <1>5, <3>1, <3>3
      <4>2. buf'[i] = sent + (i - Len(buf))
        BY <1>5, <4>1
      <4>3. QED
        BY <1>3, <3>1, <4>2
    <3>4. QED
      BY <1>3, <3>1, <3>2, <3>3
  <2>3. base' <= sent' + 1
    BY <1>1, <1>2, <1>3 DEF Reads
  <2>4. stage' \notin {"tunnel", "destroyed"} =>
           /\ Len(past') + Len(buf') = (sent' - base') + 1
           /\ \A i \in 1..Len(past') : past'[i] = (base' + i) - 1
    <3>1. stage' = stage /\ past' = past /\ base' = base /\ sent' = sent + n
      BY <1>1
    <3>2. stage \notin {"tunnel", "destroyed"} =>
             /\ Len(past) + Len(buf) = (sent - base) + 1
             /\ \A i \in 1..Len(past) : past[i] = (base + i) - 1
      BY <1>2 DEF Reads
    <3>3. Len(past) + Len(buf) = (sent - base) + 1
            => Len(past) + Len(buf') = ((sent + n) - base) + 1
      <4> DEFINE lp == Len(past)
                 lb == Len(buf)
                 lt == Len(buf')
      <4>1. lt = lb + n /\ lb \in Nat /\ lp \in Nat /\ n \in Nat
        BY <1>3, <1>5
      <4> HIDE DEF lp, lb, lt
      <4>2. lp + lb = (sent - base) + 1 => lp + lt = ((sent + n) - base) + 1
        BY <1>3, <4>1
      <4>3. QED
        BY <4>2 DEF lp, lb, lt
    <3>4. QED
      BY <3>1, <3>2, <3>3
  <2>5. Layer' = Layer
    BY <1>1 DEF Layer
  <2>6. QED
    BY <1>1, <1>2, <2>1, <2>2, <2>3, <2>4, <2>5 DEF Reads
<1>9. Waiting'
  <2>1. waits' /\ stream'[1] = Connect /\ c'.out = <<>> => sent' <= 1
    BY <1>1, <1>2 DEF Waiting, Answered
  <2>2. QED
    BY <1>1, <1>2, <2>1 DEF Waiting
<1>10. Ends'
  <2>1. Tunnelling /\ ~Over(p) => Joined'
    <3> SUFFICES ASSUME Joined PROVE Joined'
      BY <1>2 DEF Ends
    <3>1. Positions(p.out) \cup Positions(head) \cup Positions(buf') = 2..(sent + n)
      <4>1. Positions(new) = (sent + 1)..(sent + n)
        <5>1. Positions(new) = {sent + i : i \in 1..n}
          BY <1>4 DEF Positions
        <5>2. \A k \in (sent + 1)..(sent + n) : k - sent \in 1..n /\ k = sent + (k - sent)
          BY <1>3
        <5>3. \A i \in 1..n : sent + i \in (sent + 1)..(sent + n)
          BY <1>3
        <5>4. QED
          BY <5>1, <5>2, <5>3
      <4>2. sent >= 1
        <5>1. Len(p.out) + Len(head) + Len(buf) = sent - 1
          BY DEF Joined
        <5>2. QED
          BY <1>3, <5>1
      <4>3. (2..sent) \cup ((sent + 1)..(sent + n)) = 2..(sent + n)
        BY <1>3, <4>2
      <4>4. Positions(p.out) \cup Positions(head) \cup Positions(buf) = 2..sent
        BY DEF Joined
      <4>5. QED
        BY <1>5, <4>1, <4>3, <4>4
    <3>2. Len(p.out) + Len(head) + Len(buf') = (sent + n) - 1
      <4>1. Len(p.out) + Len(head) + Len(buf) = sent - 1
        BY DEF Joined
      <4>2. QED
        <5> DEFINE lo == Len(p.out)
                   lh == Len(head)
                   lb == Len(buf)
                   lt == Len(buf')
        <5>1. /\ lt = lb + n /\ lb \in Nat /\ lo \in Nat /\ lh \in Nat /\ n \in Nat
              /\ lo + lh + lb = sent - 1
          BY <1>3, <1>5, <4>1
        <5> HIDE DEF lo, lh, lb, lt
        <5>2. lo + lh + lt = (sent + n) - 1
          BY <1>3, <5>1
        <5>3. QED
          BY <5>2 DEF lo, lh, lt
    <3>3. \A i \in 1..Len(p.out) : \A j \in 1..Len(buf') : p.out[i] < buf'[j]
      <4> SUFFICES ASSUME NEW i \in 1..Len(p.out), NEW j \in 1..Len(buf')
                   PROVE  p.out[i] < buf'[j]
        OBVIOUS
      <4>1. CASE j <= Len(buf)
        <5>0. j \in 1..Len(buf)
          BY <1>3, <4>1
        <5>1. j \in 1..Len(buf) /\ buf'[j] = buf[j]
          BY <1>5, <5>0
        <5>2. QED
          BY <5>1 DEF Joined
      <4>2. CASE j > Len(buf)
        <5> DEFINE m == j - Len(buf)
        <5>1. m \in 1..n /\ Len(buf) + m = j
          BY <1>3, <1>5, <4>2
        <5> HIDE DEF m
        <5>2. buf'[j] = sent + m
          BY <1>5, <5>1
        <5>3. p.out[i] \in 2..sent
          BY DEF Joined, Positions
        <5>4. sent \in Nat /\ m \in Nat /\ m >= 1
          BY <1>3, <5>1
        <5>5. QED
          BY <5>2, <5>3, <5>4
      <4>3. QED
        BY <1>3, <1>5, <4>1, <4>2
    <3>5. \A i \in 1..Len(head) : \A j \in 1..Len(buf') : head[i] < buf'[j]
      <4> SUFFICES ASSUME NEW i \in 1..Len(head), NEW j \in 1..Len(buf')
                   PROVE  head[i] < buf'[j]
        OBVIOUS
      <4>1. CASE j <= Len(buf)
        <5>0. j \in 1..Len(buf)
          BY <1>3, <4>1
        <5>1. j \in 1..Len(buf) /\ buf'[j] = buf[j]
          BY <1>5, <5>0
        <5>2. QED
          BY <5>1 DEF Joined
      <4>2. CASE j > Len(buf)
        <5> DEFINE m == j - Len(buf)
        <5>1. m \in 1..n /\ Len(buf) + m = j
          BY <1>3, <1>5, <4>2
        <5> HIDE DEF m
        <5>2. buf'[j] = sent + m
          BY <1>5, <5>1
        <5>3. head[i] \in 2..sent
          BY DEF Joined, Positions
        <5>4. sent \in Nat /\ m \in Nat /\ m >= 1
          BY <1>3, <5>1
        <5>5. QED
          BY <5>2, <5>3, <5>4
      <4>3. QED
        BY <1>3, <1>5, <4>1, <4>2
    <3>6. QED
      BY <1>1, <3>1, <3>2, <3>3, <3>5 DEF Joined
  <2>2. QED
    BY <1>1, <1>2, <2>1 DEF Ends, Tunnelling, EndsTogether
<1>11. QED
  BY <1>6, <1>8, <1>9, <1>10 DEF TunnelIInv

\* Nothing but fin, replies, waits' own flags changes.
LEMMA EndsKeeps ==
    ASSUME TunnelIInv, ClientEnds \/ UNCHANGED socketVars
    PROVE  TunnelIInv'
<1>1. /\ UNCHANGED <<stream, sent, buf, past, stage, tls, ignore, waits, base,
                     dropped, head, early, c, p, replies>>
      /\ fin' \in BOOLEAN
  BY DEF ClientEnds, ClientFin, tunnelVars, socketVars, comboVars, TunnelIInv, TunnelTypeOK
<1>2. TunnelTypeOK'
  BY <1>1 DEF TunnelIInv, TunnelTypeOK
<1>3. Reads'
  BY <1>1 DEF TunnelIInv, Reads, Layer
<1>4. Waiting'
  BY <1>1 DEF TunnelIInv, Waiting
<1>5. Ends'
  BY <1>1 DEF TunnelIInv, Ends, Joined, Tunnelling, EndsTogether
<1>6. QED
  BY <1>2, <1>3, <1>4, <1>5 DEF TunnelIInv
-----------------------------------------------------------------------------
(***************************************************************************)
(* The sniffing                                                            *)
(***************************************************************************)

LEMMA PrefixPointwise ==
    ASSUME NEW s \in Seq(Byte), NEW t \in Seq(Byte)
    PROVE  IsPrefixOf(s, t) <=> Len(s) <= Len(t) /\ \A i \in 1..Len(s) : s[i] = t[i]
<1> DEFINE n == Len(s)
           u == SubSeq(t, 1, n)
<1>1. n \in Nat /\ Len(t) \in Nat
  BY LenProperties
<1>2. CASE n <= Len(t)
  <2>1. \A i \in 1..n : t[i] \in Byte
    BY <1>1, <1>2, ElementOfSeq
  <2>2. u \in Seq(Byte) /\ Len(u) = n /\ \A i \in 1..n : u[i] = t[i]
    <3>1. /\ u \in Seq(Byte) /\ Len(u) = (IF 1 <= n THEN (n - 1) + 1 ELSE 0)
          /\ \A i \in 1..((n - 1) + 1) : u[i] = t[(1 + i) - 1]
      BY <1>1, <2>1, SubSeqProperties
    <3> HIDE DEF u
    <3>2. QED
      BY <1>1, <3>1
  <2> HIDE DEF u
  <2>3. s = u <=> \A i \in 1..n : s[i] = u[i]
    BY <2>2, SeqEqual
  <2>4. QED
    BY <1>2, <2>2, <2>3 DEF IsPrefixOf, u
<1>3. CASE ~(n <= Len(t))
  BY <1>3 DEF IsPrefixOf
<1>4. QED
  BY <1>2, <1>3

\* What http2Listener decides on the first bytes is what all the bytes say.
LEMMA VerdictOfSniffing ==
    ASSUME NEW r \in Seq(Byte), NEW l \in Seq(Byte), r # <<>>, Len(r) <= Len(l),
           \A i \in 1..Len(r) : r[i] = l[i], r[1] = Preface[1]
    PROVE  /\ Len(r) >= Len(Preface) =>
                ServerOf(l) = IF SubSeq(r, 1, Len(Preface)) = Preface
                              THEN "h2" ELSE "h1"
           /\ Len(r) < Len(Preface) /\ ~IsPrefixOf(r, Preface) => ServerOf(l) = "h1"
<1> DEFINE m == Len(Preface)
           n == Len(r)
           k == Len(l)
<1>1. /\ Preface \in Seq(Byte) /\ m \in Nat /\ m # 0 /\ n \in Nat /\ n # 0 /\ k \in Nat
      /\ n <= k /\ l # <<>>
  BY PrefaceAssumption, LenProperties, EmptySeq
<1>2. l[1] = Preface[1] /\ l[1] # TlsByte
  BY <1>1, PrefaceAssumption
<1>3. /\ IsPrefixOf(Preface, l) <=> m <= k /\ \A i \in 1..m : Preface[i] = l[i]
      /\ IsPrefixOf(l, Preface) <=> k <= m /\ \A i \in 1..k : l[i] = Preface[i]
      /\ IsPrefixOf(r, Preface) <=> n <= m /\ \A i \in 1..n : r[i] = Preface[i]
      /\ IsPrefixOf(Preface, r) <=> m <= n /\ \A i \in 1..m : Preface[i] = r[i]
  BY <1>1, PrefixPointwise
<1>4. ServerOf(l) = IF IsPrefixOf(Preface, l) THEN "h2"
                    ELSE IF IsPrefixOf(l, Preface) THEN "unknown" ELSE "h1"
  BY <1>1, <1>2 DEF ServerOf
<1>5. m <= n => (IsPrefixOf(Preface, r) <=> SubSeq(r, 1, m) = Preface)
  BY DEF IsPrefixOf
<1>6. \A i \in 1..n : r[i] = l[i]
  OBVIOUS
<1> HIDE DEF m, n, k
<1>7. m <= n => (IsPrefixOf(Preface, l) <=> IsPrefixOf(Preface, r))
  <2> SUFFICES ASSUME m <= n PROVE IsPrefixOf(Preface, l) <=> IsPrefixOf(Preface, r)
    OBVIOUS
  <2>1. \A i \in 1..m : i \in 1..n /\ r[i] = l[i]
    BY <1>1, <1>6
  <2>2. m <= k
    BY <1>1
  <2>3. QED
    BY <1>3, <2>1, <2>2
<1>8. m <= n /\ IsPrefixOf(l, Preface) => IsPrefixOf(Preface, l)
  <2> SUFFICES ASSUME m <= n, IsPrefixOf(l, Preface) PROVE IsPrefixOf(Preface, l)
    OBVIOUS
  <2>1. k = m
    BY <1>1, <1>3
  <2>2. QED
    BY <1>3, <2>1
<1>9. n < m /\ IsPrefixOf(Preface, l) => IsPrefixOf(r, Preface)
  <2> SUFFICES ASSUME n < m, IsPrefixOf(Preface, l) PROVE IsPrefixOf(r, Preface)
    OBVIOUS
  <2>1. \A i \in 1..n : i \in 1..m
    BY <1>1
  <2>2. QED
    BY <1>1, <1>3, <1>6, <2>1
<1>10. IsPrefixOf(l, Preface) => IsPrefixOf(r, Preface)
  <2> SUFFICES ASSUME IsPrefixOf(l, Preface) PROVE IsPrefixOf(r, Preface)
    OBVIOUS
  <2>1. \A i \in 1..n : i \in 1..k
    BY <1>1
  <2>2. QED
    BY <1>1, <1>3, <1>6, <2>1
<1>11. m <= n => ServerOf(l) = IF SubSeq(r, 1, m) = Preface THEN "h2" ELSE "h1"
  BY <1>4, <1>5, <1>7, <1>8
<1>12. n < m /\ ~IsPrefixOf(r, Preface) => ServerOf(l) = "h1"
  BY <1>4, <1>9, <1>10
<1>13. QED
  BY <1>1, <1>11, <1>12 DEF m, n

LEMMA LayerIs ==
    ASSUME TunnelIInv
    PROVE  /\ Layer \in Seq(Byte) /\ Len(Layer) = (Len(stream) - base) + 1
           /\ \A i \in 1..((Len(stream) - base) + 1) : Layer[i] = stream[(base + i) - 1]
<1>1. /\ stream \in Seq(Byte) /\ Len(stream) \in Nat /\ base \in Nat /\ base >= 1
      /\ base <= Len(stream) + 1
  BY Lengths DEF TunnelIInv, TunnelTypeOK
<1>2. \A i \in base..Len(stream) : stream[i] \in Byte
  BY <1>1, ElementOfSeq
<1>3. /\ Layer \in Seq(Byte)
      /\ Len(Layer) = (IF base <= Len(stream) THEN (Len(stream) - base) + 1 ELSE 0)
      /\ \A i \in 1..((Len(stream) - base) + 1) : Layer[i] = stream[(base + i) - 1]
  BY <1>1, <1>2, SubSeqProperties DEF Layer
<1>4. QED
  BY <1>1, <1>3

\* A step of the sniffing touches neither the client's socket nor the tunnel.
LEMMA SniffFrame ==
    ASSUME TunnelIInv, stage \in Sniffing,
           UNCHANGED <<stream, sent, fin, tls, tunnelVars>>,
           buf' \in Seq(1..Len(stream)), past' \in Seq(1..Len(stream)),
           stage' \in Sniffing \cup Servers \cup {"destroyed"}, Reads'
    PROVE  TunnelIInv'
<1>1. UNCHANGED <<stream, sent, fin, tls, ignore, waits, base, dropped, head, early,
                  c, p, replies>>
  BY DEF tunnelVars
<1>2. TunnelTypeOK'
  <2>1. {buf', past', dropped', head'} \subseteq Seq(1..Len(stream))
    BY <1>1 DEF TunnelIInv, TunnelTypeOK
  <2>2. QED
    BY <1>1, <2>1 DEF TunnelIInv, TunnelTypeOK
<1>3. Waiting'
  BY <1>1 DEF TunnelIInv, Waiting, Sniffing, Servers
<1>4. Ends'
  <2>1. ~Tunnelling /\ ~Tunnelling' /\ stage \notin {"tunnel", "destroyed"}
    BY DEF Tunnelling, Sniffing, Servers
  <2>2. QED
    BY <1>1, <2>1 DEF TunnelIInv, Ends, EndsTogether, Tunnelling
<1>5. QED
  BY <1>2, <1>3, <1>4 DEF TunnelIInv

LEMMA Http2ListenerKeeps ==
    ASSUME TunnelIInv, stage \in Sniffing,
           UNCHANGED <<stream, sent, fin, tls, tunnelVars>>,
           NEW data \in Seq(1..Len(stream)), data # <<>>,
           Len(data) = (sent - base) + 1,
           \A i \in 1..Len(data) : data[i] = (base + i) - 1,
           stream[base] = Preface[1], Http2Listener(data)
    PROVE  TunnelIInv'
<1> DEFINE r == Bytes(data)
           n == Len(data)
<1>1. /\ stream \in Seq(Byte) /\ Len(stream) \in Nat /\ base \in Nat /\ base >= 1
      /\ sent \in Nat /\ sent <= Len(stream) /\ n \in Nat /\ n # 0 /\ n = (sent - base) + 1
      /\ \A i \in 1..n : data[i] = (base + i) - 1
  BY Lengths, LenProperties, EmptySeq DEF TunnelIInv
<1>2. \A i \in 1..n : (base + i) - 1 \in 1..Len(stream)
  <2> DEFINE l == Len(stream)
  <2>1. /\ l \in Nat /\ base \in Nat /\ base >= 1 /\ n \in Nat
        /\ sent \in Nat /\ sent <= l /\ n = (sent - base) + 1
    BY <1>1
  <2> HIDE DEF l, n
  <2>2. \A i \in 1..n : (base + i) - 1 \in 1..l
    BY <2>1
  <2>3. QED
    BY <2>2 DEF l
<1>3. \A i \in 1..n : r[i] = stream[(base + i) - 1] /\ r[i] \in Byte
  <2> TAKE i \in 1..n
  <2>1. r[i] = stream[data[i]]
    BY DEF Bytes
  <2>2. data[i] = (base + i) - 1
    BY <1>1
  <2>3. stream[(base + i) - 1] \in Byte
    BY <1>1, <1>2, ElementOfSeq
  <2>4. QED
    BY <2>1, <2>2, <2>3
<1>4. r \in Seq(Byte) /\ Len(r) = n
  <2>1. r = [i \in 1..n |-> stream[data[i]]]
    BY DEF Bytes
  <2> HIDE DEF n
  <2>2. \A i \in 1..n : r[i] \in Byte
    BY <1>3
  <2>3. QED
    BY <1>1, <2>1, <2>2
<1>5. /\ Layer \in Seq(Byte) /\ Len(Layer) = (Len(stream) - base) + 1
      /\ \A i \in 1..((Len(stream) - base) + 1) : Layer[i] = stream[(base + i) - 1]
  BY LayerIs
<1>6. /\ \/ /\ Len(r) >= Len(Preface) /\ buf' = data /\ past' = <<>>
            /\ stage' = IF SubSeq(r, 1, Len(Preface)) = Preface THEN "h2" ELSE "h1"
         \/ /\ Len(r) < Len(Preface) /\ ~IsPrefixOf(r, Preface)
            /\ buf' = data /\ past' = <<>> /\ stage' = "h1"
         \/ buf' = <<>> /\ past' = data /\ stage' = "preface"
  <2>1. Len(Preface) \in Nat
    BY PrefaceAssumption, LenProperties
  <2> HIDE DEF r
  <2>2. Len(r) >= Len(Preface) \/ Len(r) < Len(Preface)
    BY <1>1, <1>4, <2>1
  <2>3. QED
    BY <2>2 DEF Http2Listener, r
<1> HIDE DEF r
<1>7. /\ r # <<>> /\ Len(r) <= Len(Layer) /\ r[1] = Preface[1]
      /\ \A i \in 1..Len(r) : r[i] = Layer[i]
  <2>1. 1 \in 1..n /\ (base + 1) - 1 = base
    BY <1>1
  <2>2. r[1] = Preface[1]
    BY <1>3, <2>1
  <2>3. r # <<>> /\ Len(r) <= Len(Layer)
    BY <1>1, <1>4, <1>5, EmptySeq
  <2>4. \A i \in 1..n : i \in 1..((Len(stream) - base) + 1)
    BY <1>1
  <2>5. \A i \in 1..n : r[i] = Layer[i]
    BY <1>3, <1>5, <2>4
  <2>6. QED
    BY <1>4, <2>2, <2>3, <2>5
<1>8. /\ Len(r) >= Len(Preface) =>
            ServerOf(Layer) = IF SubSeq(r, 1, Len(Preface)) = Preface THEN "h2" ELSE "h1"
      /\ Len(r) < Len(Preface) /\ ~IsPrefixOf(r, Preface) => ServerOf(Layer) = "h1"
  <2> HIDE DEF Layer
  <2>1. QED
    BY <1>4, <1>5, <1>7, VerdictOfSniffing
<1>9. Layer' = Layer /\ base' = base /\ sent' = sent /\ stream' = stream
  BY DEF Layer, tunnelVars
<1>10. base <= sent + 1
  BY DEF TunnelIInv, Reads
<1>11. Len(<<>>) = 0 /\ <<>> \in Seq(1..Len(stream))
  BY EmptySeq
<1> HIDE DEF n
<1>12. CASE buf' = data /\ past' = <<>> /\ stage' \in {"h1", "h2"} /\ stage' = ServerOf(Layer)
  <2>1. Len(buf') = n /\ n <= sent /\ \A i \in 1..n : buf'[i] = (sent - n) + i
    <3>1. n <= sent
      BY <1>1
    <3>2. \A i \in 1..n : (base + i) - 1 = (sent - n) + i
      BY <1>1
    <3>3. QED
      BY <1>1, <1>12, <3>1, <3>2 DEF n
  <2>2. Len(past') + Len(buf') = (sent - base) + 1 /\ Len(past') = 0
    BY <1>1, <1>11, <1>12, <2>1
  <2>3. Reads'
    BY <1>9, <1>10, <1>12, <2>1, <2>2 DEF Reads
  <2>4. QED
    BY <1>11, <1>12, <2>3, SniffFrame DEF Servers
<1>13. CASE buf' = <<>> /\ past' = data /\ stage' = "preface"
  <2>1. Len(buf') = 0 /\ Len(past') = n
    BY <1>11, <1>13 DEF n
  <2>2. Len(past') + Len(buf') = (sent - base) + 1
    BY <1>1, <2>1
  <2>3. \A i \in 1..Len(past') : past'[i] = (base + i) - 1
    BY <1>1, <1>13, <2>1
  <2>4. 0 <= sent
    BY <1>1
  <2>5. Reads'
    BY <1>9, <1>10, <1>13, <2>1, <2>2, <2>3, <2>4 DEF Reads, Servers
  <2>6. QED
    BY <1>11, <1>13, <2>5, SniffFrame DEF Sniffing
<1>14. QED
  <2>1. \/ buf' = data /\ past' = <<>> /\ stage' \in {"h1", "h2"} /\ stage' = ServerOf(Layer)
        \/ buf' = <<>> /\ past' = data /\ stage' = "preface"
    BY <1>6, <1>8
  <2>2. QED
    BY <1>12, <1>13, <2>1

LEMMA HandleSocketKeeps ==
    ASSUME TunnelIInv, HandleSocket, UNCHANGED tunnelVars
    PROVE  TunnelIInv'
<1>1. /\ stage = "readable" /\ stage \in Sniffing /\ UNCHANGED <<stream, sent, fin, tls>>
  BY DEF HandleSocket, Sniffing
<1>2. /\ buf \in Seq(1..Len(stream)) /\ past \in Seq(1..Len(stream))
      /\ Len(stream) \in Nat /\ Len(buf) \in Nat /\ sent \in Nat /\ base \in Nat /\ base >= 1
      /\ sent <= Len(stream)
  BY Lengths DEF TunnelIInv
<1>3. /\ past = <<>> /\ Len(past) = 0 /\ Len(past) + Len(buf) = (sent - base) + 1
      /\ Len(buf) <= sent /\ \A i \in 1..Len(buf) : buf[i] = (sent - Len(buf)) + i
      /\ base <= sent + 1
  BY <1>1, EmptySeq DEF TunnelIInv, Reads
<1>4. Len(buf) = (sent - base) + 1 /\ \A i \in 1..Len(buf) : buf[i] = (base + i) - 1
  <2> DEFINE n == Len(buf)
  <2>1. n \in Nat /\ n = (sent - base) + 1 /\ \A i \in 1..n : buf[i] = (sent - n) + i
    BY <1>2, <1>3
  <2> HIDE DEF n
  <2>2. \A i \in 1..n : (sent - n) + i = (base + i) - 1
    BY <1>2, <2>1
  <2>3. n = (sent - base) + 1 /\ \A i \in 1..n : buf[i] = (base + i) - 1
    BY <2>1, <2>2
  <2>4. QED
    BY <2>3 DEF n
<1>5. buf # <<>> => buf[1] = base /\ base <= Len(stream)
  <2> SUFFICES ASSUME buf # <<>> PROVE buf[1] = base /\ base <= Len(stream)
    OBVIOUS
  <2>1. Len(buf) # 0
    BY <1>2, EmptySeq
  <2>2. 1 \in 1..Len(buf) /\ (base + 1) - 1 = base /\ base <= sent
    BY <1>2, <1>4, <2>1
  <2>3. QED
    BY <1>2, <1>4, <2>2
<1>6. ASSUME buf' = buf, past' = past, stage' \in Servers \cup {"destroyed"},
             stage' \in Servers => stage' = ServerOf(Layer)
      PROVE  TunnelIInv'
  <2>1. Layer' = Layer /\ UNCHANGED <<stream, sent, base, past, buf>>
    BY <1>1, <1>6 DEF Layer, tunnelVars
  <2>2. /\ stage' # "preface"
        /\ stage' \notin {"preface", "destroyed"} => past' = <<>>
    BY <1>3, <1>6 DEF Servers
  <2>3. /\ Len(past) + Len(buf) = (sent - base) + 1
        /\ \A i \in 1..Len(past) : past[i] = (base + i) - 1
    BY <1>1 DEF TunnelIInv, Reads
  <2>4. Reads'
    BY <1>3, <1>6, <2>1, <2>2, <2>3 DEF Reads
  <2>5. QED
    BY <1>1, <1>2, <1>6, <2>4, SniffFrame
<1>7. /\ Layer \in Seq(Byte) /\ Len(Layer) = (Len(stream) - base) + 1
      /\ \A i \in 1..((Len(stream) - base) + 1) : Layer[i] = stream[(base + i) - 1]
  BY LayerIs
<1>8. base <= Len(stream) => Layer # <<>> /\ Layer[1] = stream[base]
  <2> SUFFICES ASSUME base <= Len(stream) PROVE Layer # <<>> /\ Layer[1] = stream[base]
    OBVIOUS
  <2>1. 1 \in 1..((Len(stream) - base) + 1) /\ (base + 1) - 1 = base
        /\ Len(Layer) # 0
    BY <1>2, <1>7
  <2>2. QED
    BY <1>7, <2>1, EmptySeq
<1>9. CASE buf = <<>> /\ stage' = "destroyed" /\ UNCHANGED <<buf, past>>
  BY <1>6, <1>9 DEF Servers
<1>10. CASE /\ buf # <<>> /\ stream[buf[1]] = TlsByte
            /\ stage' = (IF tls THEN "tls" ELSE "destroyed") /\ UNCHANGED <<buf, past>>
  <2>1. ServerOf(Layer) = "tls"
    BY <1>5, <1>8, <1>10 DEF ServerOf
  <2>2. QED
    BY <1>6, <1>10, <2>1 DEF Servers
<1>11. CASE buf # <<>> /\ stream[buf[1]] = Preface[1] /\ Http2Listener(buf)
  <2>1. stream[base] = Preface[1]
    BY <1>5, <1>11
  <2>2. QED
    BY <1>1, <1>2, <1>4, <1>11, <2>1, Http2ListenerKeeps
<1>12. CASE /\ buf # <<>> /\ stream[buf[1]] \notin {TlsByte, Preface[1]}
            /\ stage' = "h1" /\ UNCHANGED <<buf, past>>
  <2>1. /\ Layer # <<>> /\ Layer[1] # TlsByte /\ Layer[1] # Preface[1]
    BY <1>5, <1>8, <1>12
  <2>2. ~IsPrefixOf(Preface, Layer) /\ ~IsPrefixOf(Layer, Preface)
    <3>1. Preface \in Seq(Byte) /\ Len(Preface) \in Nat /\ Len(Preface) # 0
      BY PrefaceAssumption, LenProperties, EmptySeq
    <3>2. Len(Layer) \in Nat /\ Len(Layer) # 0
      BY <1>7, <2>1, LenProperties, EmptySeq
    <3>3. 1 \in 1..Len(Preface) /\ 1 \in 1..Len(Layer)
      BY <3>1, <3>2
    <3> HIDE DEF Layer
    <3>4. QED
      BY <1>7, <2>1, <3>1, <3>3, PrefixPointwise
  <2>3. ServerOf(Layer) = "h1"
    BY <2>1, <2>2 DEF ServerOf
  <2>4. QED
    BY <1>6, <1>12, <2>3 DEF Servers
<1>13. QED
  BY <1>9, <1>10, <1>11, <1>12 DEF HandleSocket

LEMMA MorePrefaceKeeps ==
    ASSUME TunnelIInv, MorePreface, UNCHANGED tunnelVars
    PROVE  TunnelIInv'
<1> DEFINE S == 1..Len(stream)
           data == past \o buf
           n == Len(past)
           m == Len(buf)
<1>1. /\ stage = "preface" /\ stage \in Sniffing /\ UNCHANGED <<stream, sent, fin, tls>>
      /\ Http2Listener(data)
  BY DEF MorePreface, Sniffing
<1>2. /\ buf \in Seq(S) /\ past \in Seq(S)
      /\ m \in Nat /\ n \in Nat /\ sent \in Nat /\ base \in Nat
  BY Lengths DEF TunnelIInv
<1>3. /\ past # <<>> /\ stream[base] = Preface[1]
      /\ n + m = (sent - base) + 1 /\ \A i \in 1..n : past[i] = (base + i) - 1
      /\ \A i \in 1..m : buf[i] = (sent - m) + i
  BY <1>1 DEF TunnelIInv, Reads
<1> HIDE DEF S
<1>4. /\ data \in Seq(S) /\ Len(data) = n + m
      /\ \A i \in 1..n : data[i] = past[i]
      /\ \A i \in 1..m : data[n + i] = buf[i]
  BY <1>2, PositionsOf
<1>5. data # <<>>
  BY <1>2, <1>3, ConcatEqualIffEmpty
<1> HIDE DEF data, n, m
<1>6. \A i \in 1..Len(data) : data[i] = (base + i) - 1
  <2> SUFFICES ASSUME NEW i \in 1..(n + m) PROVE data[i] = (base + i) - 1
    BY <1>4
  <2>1. CASE i <= n
    <3>1. i \in 1..n
      BY <1>2, <2>1
    <3>2. QED
      BY <1>3, <1>4, <3>1
  <2>2. CASE ~(i <= n)
    <3>1. i - n \in 1..m /\ n + (i - n) = i
      BY <1>2, <2>2
    <3>2. data[i] = (sent - m) + (i - n)
      BY <1>3, <1>4, <3>1
    <3>3. QED
      BY <1>2, <1>3, <3>2
  <2>3. QED
    BY <2>1, <2>2
<1>7. Len(data) = (sent - base) + 1 /\ data \in Seq(1..Len(stream))
  BY <1>3, <1>4 DEF S
<1>8. QED
  BY <1>1, <1>3, <1>5, <1>6, <1>7, Http2ListenerKeeps

LEMMA PrefaceCutOffKeeps ==
    ASSUME TunnelIInv, PrefaceCutOff, UNCHANGED tunnelVars
    PROVE  TunnelIInv'
<1>1. /\ stage = "preface" /\ stage \in Sniffing /\ stage' = "destroyed"
      /\ UNCHANGED <<stream, sent, fin, buf, past, tls>>
  BY DEF PrefaceCutOff, Sniffing
<1>2. buf' \in Seq(1..Len(stream)) /\ past' \in Seq(1..Len(stream))
  BY <1>1, Lengths DEF TunnelIInv
<1>3. Reads'
  BY <1>1 DEF TunnelIInv, Reads, tunnelVars, Servers
<1>4. QED
  BY <1>1, <1>2, <1>3, SniffFrame

-----------------------------------------------------------------------------
(***************************************************************************)
(* handleConnect                                                           *)
(***************************************************************************)

\* A CONNECT request is met at the head of what the client sent.
LEMMA AtConnect ==
    ASSUME TunnelIInv, Connecting
    PROVE  /\ base = 1 /\ c.out = <<>> /\ ~Over(c) /\ past = <<>>
           /\ Len(buf) = sent /\ sent \in Nat /\ sent >= 1 /\ sent <= Len(stream)
           /\ buf \in Seq(1..Len(stream))
           /\ \A i \in 1..sent : buf[i] = i
           /\ waits => sent = 1
<1>1. /\ stage = "h1" /\ buf # <<>> /\ stream[buf[1]] = Connect
  BY DEF Connecting
<1>2. /\ buf \in Seq(1..Len(stream)) /\ Len(buf) \in Nat /\ sent \in Nat
      /\ base \in Nat /\ base >= 1 /\ sent <= Len(stream) /\ Len(stream) \in Nat
  BY Lengths DEF TunnelIInv
<1>3. /\ past = <<>> /\ Len(past) + Len(buf) = (sent - base) + 1
      /\ \A i \in 1..Len(buf) : buf[i] = (sent - Len(buf)) + i
  BY <1>1 DEF TunnelIInv, Reads
<1>4. Len(buf) = (sent - base) + 1
  BY <1>2, <1>3, EmptySeq
<1>5. Len(buf) # 0
  BY <1>1, <1>2, EmptySeq
<1>6. 1 \in 1..Len(buf) /\ buf[1] = base /\ base \in 1..Len(stream)
  <2>1. 1 \in 1..Len(buf) /\ (sent - Len(buf)) + 1 = base /\ base \in 1..Len(stream)
    BY <1>2, <1>4, <1>5
  <2>2. QED
    BY <1>3, <2>1
<1>7. base = 1
  <2>1. \A i \in 2..Len(stream) : stream[i] # Connect
    BY ConnectAssumption DEF TunnelIInv, TunnelTypeOK
  <2>2. base \in 2..Len(stream) \/ base = 1
    BY <1>2, <1>6
  <2>3. QED
    BY <1>1, <1>6, <2>1, <2>2
<1>8. Len(buf) = sent /\ sent >= 1
  BY <1>2, <1>4, <1>5, <1>7
<1>9. \A i \in 1..sent : buf[i] = i
  <2>1. \A i \in 1..sent : (sent - sent) + i = i
    BY <1>2
  <2>2. QED
    BY <1>3, <1>8, <2>1
<1>10. c.out = <<>> /\ ~Over(c)
  BY <1>1, <1>7 DEF TunnelIInv, Waiting, Ends, Servers
<1>11. waits => sent = 1
  <2>1. stream[1] = Connect
    BY <1>1, <1>6, <1>7
  <2>2. waits => sent <= 1
    BY <1>10, <2>1 DEF TunnelIInv, Waiting
  <2>3. QED
    BY <1>2, <1>8, <2>2
<1>12. QED
  BY <1>2, <1>3, <1>7, <1>8, <1>9, <1>10, <1>11

\* What follows the request in the buffer.
LEMMA HeadOf ==
    ASSUME TunnelIInv, Connecting
    PROVE  /\ Tail(buf) \in Seq(1..Len(stream)) /\ Len(Tail(buf)) = sent - 1
           /\ \A i \in 1..(sent - 1) : Tail(buf)[i] = i + 1
           /\ waits => Tail(buf) = <<>>
           /\ Positions(Tail(buf)) = 2..sent
<1>1. /\ Len(buf) = sent /\ sent \in Nat /\ sent >= 1 /\ buf \in Seq(1..Len(stream))
      /\ \A i \in 1..sent : buf[i] = i
      /\ waits => sent = 1
  BY AtConnect
<1> DEFINE t == Tail(buf)
<1>2. /\ t \in Seq(1..Len(stream)) /\ Len(t) = Len(buf) - 1
      /\ \A i \in 1..Len(t) : t[i] = buf[i + 1]
  <2>1. buf # <<>>
    BY DEF Connecting
  <2>2. QED
    BY <1>1, <2>1, HeadTailProperties
<1> HIDE DEF t
<1>3. \A i \in 1..(sent - 1) : t[i] = i + 1
  <2>1. \A i \in 1..(sent - 1) : i + 1 \in 1..sent
    BY <1>1
  <2>2. QED
    BY <1>1, <1>2, <2>1
<1>4. waits => t = <<>>
  BY <1>1, <1>2, EmptySeq
<1>5. Positions(t) = 2..sent
  <2>1. Positions(t) = {t[i] : i \in 1..(sent - 1)}
    BY <1>1, <1>2 DEF Positions
  <2>2. \A k \in 2..sent : k - 1 \in 1..(sent - 1) /\ (k - 1) + 1 = k
    BY <1>1
  <2>3. \A i \in 1..(sent - 1) : i + 1 \in 2..sent
    BY <1>1
  <2>4. QED
    BY <1>3, <2>1, <2>2, <2>3
<1>6. QED
  BY <1>1, <1>2, <1>3, <1>4, <1>5 DEF t

LEMMA HandleH1ConnectKeeps ==
    ASSUME TunnelIInv, HandleH1Connect
    PROVE  TunnelIInv'
<1>1. /\ Connecting /\ stage = "h1" /\ dropped' = Tail(buf) /\ buf' = <<>>
      /\ stage' = "answering" /\ base' = buf[Len(buf)] + 1 /\ c' = Write(c, <<"200">>)
      /\ UNCHANGED <<stream, sent, fin, past, tls, ignore, waits, head, early, p, replies>>
  BY DEF HandleH1Connect, Connecting
<1>2. /\ base = 1 /\ ~Over(c) /\ past = <<>> /\ Len(buf) = sent
      /\ sent \in Nat /\ sent >= 1 /\ sent <= Len(stream)
      /\ \A i \in 1..sent : buf[i] = i
  BY <1>1, AtConnect
<1>3. base' = sent + 1
  BY <1>1, <1>2
<1>4. /\ Len(<<>>) = 0 /\ \A S : <<>> \in Seq(S)
  BY EmptySeq
<1>5. /\ c' \in Sockets({"200", "data", "500"}) /\ ~Over(c') /\ c'.out # <<>>
  <2> DEFINE T == {"200", "data", "500"}
             d == <<"200">>
  <2>1. d \in Seq(T) /\ d # <<>> /\ c \in Sockets(T)
    BY DEF TunnelIInv, TunnelTypeOK
  <2> DEFINE w == Write(c, d)
  <2>4. c' = w
    BY <1>1
  <2> HIDE DEF T, d
  <2>5. w \in Sockets(T) /\ ~Over(w) /\ w.out = c.out \o d
    BY <1>2, <2>1, WriteKeeps
  <2> HIDE DEF w
  <2>2. c' \in Sockets(T) /\ ~Over(c') /\ c'.out = c.out \o d
    BY <2>4, <2>5
  <2>3. c.out \o d # <<>>
    BY <2>1, ConcatEqualIffEmpty DEF Sockets
  <2>6. QED
    BY <2>2, <2>3 DEF T
<1>6. Tail(buf) \in Seq(1..Len(stream)) /\ (waits => Tail(buf) = <<>>)
  BY <1>1, HeadOf
<1>7. TunnelTypeOK'
  <2>1. {buf', past', dropped', head'} \subseteq Seq(1..Len(stream))
    BY <1>1, <1>4, <1>6 DEF TunnelIInv, TunnelTypeOK
  <2>2. base' \in 1..(Len(stream) + 1)
    BY <1>2, <1>3, Lengths DEF TunnelIInv
  <2>3. QED
    BY <1>1, <1>5, <2>1, <2>2 DEF TunnelIInv, TunnelTypeOK
<1>8. Reads'
  <2>1. Len(buf') = 0 /\ past' = <<>> /\ Len(past') = 0 /\ sent' = sent
    BY <1>1, <1>2, <1>4
  <2>2. Len(past') + Len(buf') = (sent' - base') + 1
    BY <1>2, <1>3, <2>1
  <2>3. QED
    BY <1>1, <1>2, <1>3, <2>1, <2>2 DEF Reads, Servers
<1>9. Waiting'
  BY <1>1, <1>2, <1>3, <1>5, <1>6 DEF Waiting, Sniffing, Servers
<1>10. Ends'
  <2>1. ~Tunnelling /\ ~Tunnelling'
    BY <1>1 DEF Tunnelling
  <2>2. QED
    BY <1>1, <1>5, <2>1 DEF TunnelIInv, Ends, EndsTogether
<1>11. QED
  BY <1>7, <1>8, <1>9, <1>10 DEF TunnelIInv

LEMMA SniffAgainKeeps ==
    ASSUME TunnelIInv, SniffAgain
    PROVE  TunnelIInv'
<1>1. /\ stage = "answering" /\ stage' = "readable"
      /\ UNCHANGED <<stream, sent, fin, buf, past, tls, ignore, waits, base, dropped,
                     head, early, c, p, replies>>
  BY DEF SniffAgain, tunnelVars
<1>2. TunnelTypeOK'
  BY <1>1 DEF TunnelIInv, TunnelTypeOK, Sniffing
<1>3. Reads'
  BY <1>1 DEF TunnelIInv, Reads, Layer, Servers
<1>4. base >= 2 /\ base \in Nat
  BY <1>1, Lengths DEF TunnelIInv, Waiting
<1>5. Waiting'
  BY <1>1, <1>4 DEF TunnelIInv, Waiting
<1>6. Ends'
  <2>1. ~Tunnelling /\ ~Tunnelling'
    BY <1>1 DEF Tunnelling
  <2>2. QED
    BY <1>1, <2>1 DEF TunnelIInv, Ends, EndsTogether
<1>7. QED
  BY <1>2, <1>3, <1>5, <1>6 DEF TunnelIInv

LEMMA HandlePassThroughTLSKeeps ==
    ASSUME TunnelIInv, HandlePassThroughTLS
    PROVE  TunnelIInv'
<1>1. /\ Connecting /\ stage = "h1" /\ buf' = <<>> /\ stage' \in {"tunnel", "destroyed"}
      /\ stage' = "destroyed" => c' = Destroy(c) /\ head' = head
      /\ stage' = "tunnel" => head' = Tail(buf) /\ c' = c
      /\ UNCHANGED <<stream, sent, fin, past, tls, ignore, waits, base, dropped, early, p,
                     replies>>
  BY DEF HandlePassThroughTLS, Connecting
<1>2. /\ base = 1 /\ ~Over(c) /\ past = <<>>
      /\ sent \in Nat /\ sent >= 1 /\ sent <= Len(stream)
  BY <1>1, AtConnect
<1>3. /\ Tail(buf) \in Seq(1..Len(stream)) /\ Len(Tail(buf)) = sent - 1
      /\ \A i \in 1..(sent - 1) : Tail(buf)[i] = i + 1
      /\ waits => Tail(buf) = <<>>
      /\ Positions(Tail(buf)) = 2..sent
  BY <1>1, HeadOf
<1>4. /\ Len(<<>>) = 0 /\ \A S : <<>> \in Seq(S)
  BY EmptySeq
<1>5. /\ p = Socket(FALSE) /\ p' = p /\ head = <<>> /\ early = {} /\ early' = {}
  BY <1>1 DEF TunnelIInv, Ends, Tunnelling
<1>6. c' \in Sockets({"200", "data", "500"}) /\ c'.out = c.out
  <2>1. c \in Sockets({"200", "data", "500"})
    BY DEF TunnelIInv, TunnelTypeOK
  <2>2. QED
    BY <1>1, <2>1, EndKeeps
<1>7. TunnelTypeOK'
  <2>1. {buf', past', dropped', head'} \subseteq Seq(1..Len(stream))
    BY <1>1, <1>3, <1>4 DEF TunnelIInv, TunnelTypeOK
  <2>2. QED
    BY <1>1, <1>6, <2>1 DEF TunnelIInv, TunnelTypeOK
<1>8. Reads'
  <2>1. Len(buf') = 0 /\ past' = <<>> /\ sent' = sent /\ base' = base /\ base <= sent + 1
    BY <1>1, <1>2, <1>4
  <2>2. QED
    BY <1>1, <1>2, <2>1 DEF Reads, Servers
<1>9. Waiting'
  BY <1>1, <1>6 DEF TunnelIInv, Waiting, Sniffing, Servers
<1>10. Ends'
  <2>1. ~Over(p) /\ p.out = <<>> /\ Len(p.out) = 0
    BY <1>4, <1>5 DEF Socket, Over
  <2>2. CASE stage' = "destroyed"
    BY <1>1, <1>5, <2>2 DEF Ends, EndsTogether, Tunnelling
  <2>3. CASE stage' = "tunnel"
    <3>1. c' = c /\ head' = Tail(buf) /\ p' = p
      BY <1>1, <2>3
    <3>2. Positions(p'.out) = {} /\ Positions(buf') = {} /\ Positions(head') = 2..sent
      BY <1>1, <1>3, <1>5, <2>1, <3>1, PositionsOfNothing
    <3>3. Len(p'.out) = 0 /\ Len(buf') = 0 /\ Len(head') = sent - 1
      BY <1>1, <1>3, <1>4, <1>5, <2>1, <3>1
    <3>4. \A i, j \in 1..Len(head') : i < j => head'[i] < head'[j]
      BY <1>2, <1>3, <3>1
    <3>5. head' # <<>> => ~waits'
      BY <1>1, <1>3, <3>1
    <3>6. Joined'
      <4>1. Len(p'.out) + Len(head') + Len(buf') = sent' - 1
        BY <1>1, <1>2, <3>3
      <4>2. Positions(p'.out) \cup Positions(head') \cup Positions(buf') = 2..sent'
        BY <1>1, <3>2
      <4>3. 1..Len(p'.out) = {} /\ 1..Len(buf') = {}
        BY <3>3
      <4>4. QED
        BY <3>2, <3>4, <3>5, <4>1, <4>2, <4>3 DEF Joined
    <3>7. Over(c') <=> Over(p')
      BY <1>2, <2>1, <3>1
    <3>8. QED
      BY <2>3, <3>6, <3>7 DEF Ends, EndsTogether, Tunnelling
  <2>4. QED
    BY <1>1, <2>2, <2>3
<1>11. QED
  BY <1>7, <1>8, <1>9, <1>10 DEF TunnelIInv

-----------------------------------------------------------------------------
(***************************************************************************)
(* The tunnel                                                              *)
(***************************************************************************)

Answers == {"200", "data", "500"}

\* A listener of the tunnel preserves the invariant if it ends both sockets or
\* neither, and leaves the bytes of a tunnel that lasts where they belong.
LEMMA TunnelFrame ==
    ASSUME TunnelIInv, Tunnelling, UNCHANGED Rest, buf' = buf \/ buf' = <<>>,
           head' = head \/ head' = <<>>, early' \subseteq 1..Len(stream),
           c' \in Sockets(Answers), p' \in Sockets(1..Len(stream)),
           replies' \in 0..MaxReply, c.out # <<>> => c'.out # <<>>,
           Over(c') <=> Over(p'), ~Over(p') => Joined'
    PROVE  TunnelIInv'
<1>1. /\ stage = "tunnel"
      /\ UNCHANGED <<stream, sent, fin, past, stage, tls, ignore, waits, base, dropped>>
  BY DEF Tunnelling, Rest
<1>2. /\ Len(<<>>) = 0 /\ \A S : <<>> \in Seq(S)
  BY EmptySeq
<1>3. TunnelTypeOK'
  <2>1. {buf', past', dropped', head'} \subseteq Seq(1..Len(stream))
    BY <1>1, <1>2 DEF TunnelIInv, TunnelTypeOK
  <2>2. QED
    BY <1>1, <2>1 DEF TunnelIInv, TunnelTypeOK, Answers
<1>4. Reads'
  <2>1. /\ Len(buf') <= sent'
        /\ \A i \in 1..Len(buf') : buf'[i] = (sent' - Len(buf')) + i
    <3>1. CASE buf' = buf
      BY <1>1, <3>1 DEF TunnelIInv, Reads
    <3>2. CASE buf' = <<>>
      <4>1. Len(buf') = 0 /\ sent' \in Nat
        BY <1>1, <1>2, <3>2, Lengths DEF TunnelIInv
      <4>2. QED
        BY <4>1
    <3>3. QED
      BY <3>1, <3>2
  <2>2. QED
    BY <1>1, <2>1 DEF TunnelIInv, Reads, Servers
<1>5. Waiting'
  BY <1>1 DEF TunnelIInv, Waiting, Sniffing, Servers
<1>6. Ends'
  BY <1>1 DEF TunnelIInv, Ends, EndsTogether, Tunnelling
<1>7. QED
  BY <1>3, <1>4, <1>5, <1>6 DEF TunnelIInv

LEMMA TunnelTypes ==
    ASSUME TunnelIInv, Tunnelling
    PROVE  /\ c \in Sockets(Answers) /\ p \in Sockets(1..Len(stream))
           /\ early \subseteq 1..Len(stream) /\ replies \in 0..MaxReply
           /\ Over(c) <=> Over(p)
           /\ ~Over(p) => Joined
  BY DEF TunnelIInv, TunnelTypeOK, Ends, EndsTogether, Answers

\* write() on the client's socket, with one of the proxy's answers.
LEMMA AnswerKeeps ==
    ASSUME NEW s \in Sockets(Answers), NEW a \in Answers
    PROVE  /\ Write(s, <<a>>) \in Sockets(Answers)
           /\ Over(Write(s, <<a>>)) <=> Over(s)
           /\ s.out # <<>> => Write(s, <<a>>).out # <<>>
<1> DEFINE d == <<a>>
<1>1. d \in Seq(Answers)
  OBVIOUS
<1> HIDE DEF d
<1>2. /\ Write(s, d) \in Sockets(Answers) /\ (Over(Write(s, d)) <=> Over(s))
      /\ s.out # <<>> => Write(s, d).out # <<>>
  BY <1>1, WriteKeeps
<1>3. QED
  BY <1>2 DEF d

\* The head goes first on the new connection: what was written before it is in
\* `early`, and whoever sent a head did not wait.
LEMMA ConnectedKeeps ==
    ASSUME TunnelIInv, Connected
    PROVE  TunnelIInv'
<1> DEFINE S == 1..Len(stream)
           q == [p EXCEPT !.up = TRUE]
<1>1. /\ Tunnelling /\ ~p.up /\ UNCHANGED Rest /\ buf' = buf /\ early' = early
      /\ replies' = replies /\ head' = <<>>
      /\ p' = Write(q, head) /\ c' = Write(c, <<"200">>)
  BY DEF Connected, InTunnel
<1>2. /\ c \in Sockets(Answers) /\ p \in Sockets(S)
      /\ early \subseteq S /\ replies \in 0..MaxReply
      /\ Over(c) <=> Over(p)
      /\ ~Over(p) => Joined
  BY <1>1, TunnelTypes
<1>3. head \in Seq(S) /\ p.out \in Seq(S)
  BY Lengths DEF TunnelIInv
<1> HIDE DEF S
<1>4. q \in Sockets(S) /\ (Over(q) <=> Over(p)) /\ q.out = p.out /\ q.up = TRUE
  BY <1>2 DEF Sockets, Over
<1> HIDE DEF q
<1>5. /\ p' \in Sockets(S) /\ (Over(p') <=> Over(p)) /\ p'.up = TRUE
      /\ ~Over(p) => p'.out = p.out \o head
  <2> DEFINE w == Write(q, head)
  <2>1. /\ w \in Sockets(S) /\ (Over(w) <=> Over(q)) /\ w.up = q.up
        /\ ~Over(q) => w.out = q.out \o head
    BY <1>3, <1>4, WriteKeeps
  <2>2. p' = w
    BY <1>1
  <2> HIDE DEF w
  <2>3. QED
    BY <1>4, <2>1, <2>2
<1>6. /\ c' \in Sockets(Answers) /\ (Over(c') <=> Over(c))
      /\ c.out # <<>> => c'.out # <<>>
  BY <1>1, <1>2, AnswerKeeps DEF Answers
<1>7. ASSUME ~Over(p') PROVE Joined'
  <2> DEFINE n == Len(p.out)
             m == Len(head)
             t == p'.out
  <2>1. Joined
    BY <1>2, <1>5, <1>7
  <2>2. /\ t = p.out \o head
        /\ n \in Nat /\ m \in Nat
    BY <1>3, <1>5, <1>7, LenProperties
  <2>3. /\ Positions(t) = Positions(p.out) \cup Positions(head) /\ Len(t) = n + m
        /\ \A i \in 1..n : t[i] = p.out[i]
        /\ \A i \in 1..m : t[n + i] = head[i]
    <3> DEFINE o == p.out
    <3>1. o \in Seq(S)
      BY <1>3
    <3> HIDE DEF o
    <3>2. /\ Positions(o \o head) = Positions(o) \cup Positions(head)
          /\ Len(o \o head) = Len(o) + Len(head)
          /\ \A i \in 1..Len(o) : (o \o head)[i] = o[i]
          /\ \A i \in 1..Len(head) : (o \o head)[Len(o) + i] = head[i]
      BY <1>3, <3>1, PositionsOf
    <3>3. t = o \o head
      BY <2>2 DEF o
    <3>4. QED
      BY <3>2, <3>3 DEF o
  <2>4. /\ Positions(p.out) \cup Positions(head) \cup Positions(buf) = 2..sent
        /\ n + m + Len(buf) = sent - 1
        /\ \A i, j \in 1..n : i < j /\ p.out[i] > p.out[j] => ~waits /\ p.out[i] \in early
        /\ \A i \in 1..n : \A j \in 1..Len(buf) : p.out[i] < buf[j]
        /\ \A i \in 1..m : \A j \in 1..Len(buf) : head[i] < buf[j]
        /\ \A i, j \in 1..m : i < j => head[i] < head[j]
        /\ head # <<>> => ~waits
        /\ Positions(p.out) \subseteq early
    BY <1>1, <2>1 DEF Joined
  <2>5. /\ UNCHANGED <<sent, waits, buf, early>> /\ Positions(head') = {} /\ Len(head') = 0
        /\ Len(buf) \in Nat /\ sent \in Nat
    BY <1>1, PositionsOfNothing, EmptySeq, Lengths DEF Rest, TunnelIInv
  <2>6. /\ \A i \in 1..n : p.out[i] \in Nat /\ p.out[i] \in Positions(p.out)
        /\ \A i \in 1..m : head[i] \in Nat
    <3>1. /\ \A i \in 1..n : p.out[i] \in S
          /\ \A i \in 1..m : head[i] \in S
      BY <1>3, ElementOfSeq
    <3>2. S \subseteq Nat
      BY Lengths DEF S, TunnelIInv
    <3>3. QED
      BY <3>1, <3>2 DEF Positions
  <2> HIDE DEF t, n, m
  <2>7. \A i \in 1..(n + m) : i \in 1..n \/ (i - n \in 1..m /\ n + (i - n) = i /\ i > n)
    BY <2>2
  <2>8. \A i, j \in 1..(n + m) : i < j /\ t[i] > t[j] => ~waits /\ t[i] \in early
    <3> SUFFICES ASSUME NEW i \in 1..(n + m), NEW j \in 1..(n + m), i < j, t[i] > t[j]
                 PROVE  ~waits /\ t[i] \in early
      OBVIOUS
    <3>1. CASE i \in 1..n /\ j \in 1..n
      BY <2>3, <2>4, <3>1
    <3>2. CASE i \in 1..n /\ j \notin 1..n
      <4>1. j - n \in 1..m
        BY <2>7, <3>2
      <4>2. m # 0
        BY <2>2, <4>1
      <4>3. head # <<>>
        BY <4>2, EmptySeq DEF m
      <4>4. t[i] = p.out[i] /\ p.out[i] \in early
        BY <2>3, <2>4, <2>6, <3>2
      <4>5. QED
        BY <2>4, <4>3, <4>4
    <3>3. CASE i \notin 1..n
      <4>1. /\ i - n \in 1..m /\ n + (i - n) = i
            /\ j - n \in 1..m /\ n + (j - n) = j /\ i - n < j - n
        BY <2>2, <2>7, <3>3
      <4>2. t[i] = head[i - n] /\ t[j] = head[j - n]
        BY <2>3, <4>1
      <4>3. head[i - n] < head[j - n] /\ head[i - n] \in Nat /\ head[j - n] \in Nat
        BY <2>4, <2>6, <4>1
      <4>4. QED
        BY <4>2, <4>3
    <3>4. QED
      BY <3>1, <3>2, <3>3
  <2>9. \A i \in 1..(n + m) : \A j \in 1..Len(buf) : t[i] < buf[j]
    <3> SUFFICES ASSUME NEW i \in 1..(n + m), NEW j \in 1..Len(buf) PROVE t[i] < buf[j]
      OBVIOUS
    <3>1. CASE i \in 1..n
      BY <2>3, <2>4, <3>1
    <3>2. CASE i \notin 1..n
      BY <2>3, <2>4, <2>7, <3>2
    <3>3. QED
      BY <3>1, <3>2
  <2>10. Len(t) + Len(head') + Len(buf') = sent' - 1
    BY <2>2, <2>3, <2>4, <2>5
  <2>11. Positions(t) \cup Positions(head') \cup Positions(buf') = 2..sent'
    BY <2>3, <2>4, <2>5
  <2>12. QED
    BY <1>5, <2>3, <2>5, <2>8, <2>9, <2>10, <2>11 DEF Joined, t
<1>8. QED
  BY <1>1, <1>2, <1>5, <1>6, <1>7, TunnelFrame DEF S

\* What the client sends after its head follows all that was written before.
LEMMA ClientDataKeeps ==
    ASSUME TunnelIInv, ClientData
    PROVE  TunnelIInv'
<1> DEFINE S == 1..Len(stream)
<1>1. /\ Tunnelling /\ UNCHANGED Rest /\ buf' = <<>> /\ UNCHANGED <<head, c, replies>>
      /\ p' = Write(p, buf)
      /\ early' = IF p.up THEN early ELSE early \cup Positions(buf)
  BY DEF ClientData, InTunnel
<1>2. /\ c \in Sockets(Answers) /\ p \in Sockets(S)
      /\ early \subseteq S /\ replies \in 0..MaxReply
      /\ Over(c) <=> Over(p)
      /\ ~Over(p) => Joined
  BY <1>1, TunnelTypes
<1>3. /\ buf \in Seq(S) /\ p.out \in Seq(S) /\ Len(buf) \in Nat /\ Len(p.out) \in Nat
      /\ sent \in Nat /\ head \in Seq(S) /\ Len(head) \in Nat
  BY Lengths DEF TunnelIInv
<1>4. Positions(buf) \subseteq S
  BY <1>3, ElementOfSeq DEF Positions
<1> HIDE DEF S
<1>5. /\ p' \in Sockets(S) /\ (Over(p') <=> Over(p)) /\ p'.up = p.up
      /\ ~Over(p) => p'.out = p.out \o buf
  <2> DEFINE w == Write(p, buf)
  <2>0. p \in Sockets(S) /\ buf \in Seq(S)
    BY <1>2, <1>3
  <2>1. /\ w \in Sockets(S) /\ (Over(w) <=> Over(p)) /\ w.up = p.up
        /\ ~Over(p) => w.out = p.out \o buf
    BY <2>0, WriteKeeps
  <2>2. p' = w
    BY <1>1
  <2> HIDE DEF w
  <2>3. QED
    BY <2>1, <2>2
<1>6. early' \subseteq S
  BY <1>1, <1>2, <1>4
<1>7. ASSUME ~Over(p') PROVE Joined'
  <2> DEFINE n == Len(p.out)
             m == Len(buf)
             t == p'.out
  <2>1. Joined
    BY <1>2, <1>5, <1>7
  <2>2. n \in Nat /\ m \in Nat
    BY <1>3
  <2>3. /\ Positions(t) = Positions(p.out) \cup Positions(buf) /\ Len(t) = n + m
        /\ \A i \in 1..n : t[i] = p.out[i]
        /\ \A i \in 1..m : t[n + i] = buf[i]
    <3> DEFINE o == p.out
    <3>1. o \in Seq(S)
      BY <1>3
    <3> HIDE DEF o
    <3>2. /\ Positions(o \o buf) = Positions(o) \cup Positions(buf)
          /\ Len(o \o buf) = Len(o) + Len(buf)
          /\ \A i \in 1..Len(o) : (o \o buf)[i] = o[i]
          /\ \A i \in 1..Len(buf) : (o \o buf)[Len(o) + i] = buf[i]
      BY <1>3, <3>1, PositionsOf
    <3>3. t = o \o buf
      BY <1>5, <1>7 DEF o
    <3>4. QED
      BY <3>2, <3>3 DEF o
  <2>4. /\ Positions(p.out) \cup Positions(head) \cup Positions(buf) = 2..sent
        /\ n + Len(head) + m = sent - 1
        /\ \A i, j \in 1..n : i < j /\ p.out[i] > p.out[j] => ~waits /\ p.out[i] \in early
        /\ \A i \in 1..n : \A j \in 1..m : p.out[i] < buf[j]
        /\ \A i, j \in 1..Len(head) : i < j => head[i] < head[j]
        /\ head # <<>> => ~waits
        /\ ~p.up => Positions(p.out) \subseteq early
    BY <2>1 DEF Joined
  <2>5. /\ UNCHANGED <<sent, waits>> /\ Positions(buf') = {} /\ Len(buf') = 0
    BY <1>1, PositionsOfNothing, EmptySeq DEF Rest
  <2>6. \A i \in 1..m : buf[i] = (sent - m) + i
    BY DEF TunnelIInv, Reads
  <2>7. \A i \in 1..n : p.out[i] \in Nat
    <3>1. \A i \in 1..n : p.out[i] \in S
      BY <1>3, ElementOfSeq
    <3>2. S \subseteq Nat
      BY Lengths DEF S, TunnelIInv
    <3>3. QED
      BY <3>1, <3>2
  <2> HIDE DEF t, n, m
  <2>8. \A i \in 1..(n + m) : i \in 1..n \/ (i - n \in 1..m /\ n + (i - n) = i /\ i > n)
    BY <2>2
  <2>9. \A i, j \in 1..(n + m) : i < j /\ t[i] > t[j] => ~waits /\ t[i] \in early
    <3> SUFFICES ASSUME NEW i \in 1..(n + m), NEW j \in 1..(n + m), i < j, t[i] > t[j]
                 PROVE  ~waits /\ t[i] \in early
      OBVIOUS
    <3>1. CASE i \in 1..n /\ j \in 1..n
      BY <2>3, <2>4, <3>1
    <3>2. CASE i \in 1..n /\ j \notin 1..n
      <4>1. j - n \in 1..m /\ t[j] = buf[j - n] /\ t[i] = p.out[i]
        BY <2>3, <2>8, <3>2
      <4>2. p.out[i] < buf[j - n]
        BY <2>4, <3>2, <4>1
      <4>3. buf[j - n] \in Int /\ p.out[i] \in Nat
        BY <1>3, <2>2, <2>6, <2>7, <3>2, <4>1
      <4>4. QED
        BY <4>1, <4>2, <4>3
    <3>3. CASE i \notin 1..n
      <4>1. /\ i - n \in 1..m /\ n + (i - n) = i
            /\ j - n \in 1..m /\ n + (j - n) = j /\ i - n < j - n
        BY <2>2, <2>8, <3>3
      <4>2. t[i] = buf[i - n] /\ t[j] = buf[j - n]
        BY <2>3, <4>1
      <4>3. t[i] = (sent - m) + (i - n) /\ t[j] = (sent - m) + (j - n)
        BY <2>6, <4>1, <4>2
      <4>4. QED
        BY <1>3, <2>2, <4>1, <4>3
    <3>4. QED
      BY <3>1, <3>2, <3>3
  <2>10. early \subseteq early' /\ (~p.up => Positions(t) \subseteq early')
    BY <1>1, <2>3, <2>4
  <2>11. Len(t) + Len(head') + Len(buf') = sent' - 1
    <3> DEFINE lh == Len(head)
    <3>1. lh \in Nat /\ n + lh + m = sent - 1
      BY <1>3, <2>4
    <3> HIDE DEF lh
    <3>2. (n + m) + lh + 0 = sent - 1
      BY <1>3, <2>2, <3>1
    <3>3. QED
      BY <1>1, <2>3, <2>5, <3>2 DEF lh
  <2>12. Positions(t) \cup Positions(head') \cup Positions(buf') = 2..sent'
    BY <1>1, <2>3, <2>4, <2>5
  <2>13. head' = head /\ 1..Len(buf') = {}
    BY <1>1, <2>5
  <2>14. \A i, j \in 1..Len(t) : i < j /\ t[i] > t[j] => ~waits' /\ t[i] \in early'
    BY <2>3, <2>5, <2>9, <2>10
  <2>15. QED
    BY <1>5, <2>4, <2>5, <2>10, <2>11, <2>12, <2>13, <2>14 DEF Joined, t
<1>8. QED
  BY <1>1, <1>2, <1>5, <1>6, <1>7, TunnelFrame DEF S

LEMMA DestinationDataKeeps ==
    ASSUME TunnelIInv, DestinationData
    PROVE  TunnelIInv'
<1>1. /\ Tunnelling /\ UNCHANGED Rest /\ UNCHANGED <<buf, head, early, p>>
      /\ c' = Write(c, <<"data">>) /\ replies < MaxReply /\ replies' = replies + 1
  BY DEF DestinationData, InTunnel
<1>2. /\ c \in Sockets(Answers) /\ p \in Sockets(1..Len(stream))
      /\ early \subseteq 1..Len(stream) /\ replies \in 0..MaxReply
      /\ Over(c) <=> Over(p)
      /\ ~Over(p) => Joined
  BY <1>1, TunnelTypes
<1>3. /\ c' \in Sockets(Answers) /\ (Over(c') <=> Over(c))
      /\ c.out # <<>> => c'.out # <<>>
  BY <1>1, <1>2, AnswerKeeps DEF Answers
<1>4. replies' \in 0..MaxReply
  BY <1>1, <1>2, ConnectAssumption
<1>5. Joined => Joined'
  BY <1>1 DEF Joined, Rest
<1>6. QED
  BY <1>1, <1>2, <1>3, <1>4, <1>5, TunnelFrame

\* The listeners that end a tunnel end both its sockets.
LEMMA EndingKeeps ==
    ASSUME TunnelIInv, ClientEnd \/ DestinationEnd \/ ClientError \/ ProxyError
    PROVE  TunnelIInv'
<1>1. /\ Tunnelling /\ UNCHANGED Rest /\ UNCHANGED <<buf, head, early, replies>>
      /\ c' \in {EndSocket(c), Destroy(c), EndSocket(Write(c, <<"500">>))}
      /\ p' \in {EndSocket(p), Destroy(p)}
  BY DEF ClientEnd, DestinationEnd, ClientError, ProxyError, InTunnel
<1>2. /\ c \in Sockets(Answers) /\ p \in Sockets(1..Len(stream))
      /\ early \subseteq 1..Len(stream) /\ replies \in 0..MaxReply
  BY <1>1, TunnelTypes
<1>3. p' \in Sockets(1..Len(stream)) /\ Over(p')
  BY <1>1, <1>2, EndKeeps
<1>4. c' \in Sockets(Answers) /\ Over(c') /\ (c.out # <<>> => c'.out # <<>>)
  <2> DEFINE w == Write(c, <<"500">>)
  <2>1. w \in Sockets(Answers) /\ (c.out # <<>> => w.out # <<>>)
    BY <1>2, AnswerKeeps DEF Answers
  <2>2. c' \in {EndSocket(c), Destroy(c), EndSocket(w)}
    BY <1>1
  <2> HIDE DEF w
  <2>3. QED
    BY <1>2, <2>1, <2>2, EndKeeps
<1>5. QED
  BY <1>1, <1>2, <1>3, <1>4, TunnelFrame

-----------------------------------------------------------------------------
(***************************************************************************)
(* The theorems                                                            *)
(***************************************************************************)

LEMMA Invariance == TunnelSpec => []TunnelIInv
<1>1. TunnelIInv /\ [TunnelNext]_socketVars => TunnelIInv'
  <2> SUFFICES ASSUME TunnelIInv, [TunnelNext]_socketVars PROVE TunnelIInv'
    OBVIOUS
  <2>1. CASE Client
    <3>1. ASSUME NEW n \in 1..Len(stream), ClientSends(n) PROVE TunnelIInv'
      BY <3>1, ChunkKeeps
    <3>2. QED
      BY <2>1, <3>1, EndsKeeps DEF Client
  <2>2. CASE Serve
    <3>1. CASE ComboServes
      BY <3>1, HandleSocketKeeps, MorePrefaceKeeps, PrefaceCutOffKeeps
      DEF ComboServes, Sniff
    <3>2. QED
      BY <2>2, <3>1, HandleH1ConnectKeeps, SniffAgainKeeps, HandlePassThroughTLSKeeps
      DEF Serve
  <2>3. CASE Tunnel
    BY <2>3, ConnectedKeeps, ClientDataKeeps, DestinationDataKeeps, EndingKeeps
    DEF Tunnel
  <2>4. CASE UNCHANGED socketVars
    BY <2>4, EndsKeeps
  <2>5. QED
    BY <2>1, <2>2, <2>3, <2>4 DEF TunnelNext
<1>2. QED
  BY TunnelInitIInv, <1>1, PTL DEF TunnelSpec

\* Every variable of a client connection has its type.
THEOREM TunnelTypeCorrect == TunnelSpec => []TunnelTypeOK
<1>1. TunnelIInv => TunnelTypeOK
  BY DEF TunnelIInv
<1>2. QED
  BY Invariance, <1>1, PTL

\* However the network cuts what a client sends into chunks, the socket goes to
\* the server its bytes belong to, with all of them put back; what came with a
\* CONNECT request is lost only if the client did not wait for the answer.
THEOREM GivenToTheRightServer == TunnelSpec => []RightServer
<1>1. TunnelIInv => RightServer
  <2> SUFFICES ASSUME TunnelIInv PROVE RightServer
    OBVIOUS
  <2>1. ASSUME stage \in Servers
        PROVE  /\ stage = ServerOf(SubSeq(stream, base, Len(stream)))
               /\ buf = [i \in 1..(sent - base + 1) |-> base + i - 1]
    <3> DEFINE n == Len(buf)
    <3>1. /\ buf \in Seq(1..Len(stream)) /\ n \in Nat /\ sent \in Nat /\ base \in Nat
      BY Lengths DEF TunnelIInv
    <3>2. /\ past = <<>> /\ Len(past) = 0 /\ Len(past) + n = (sent - base) + 1
          /\ \A i \in 1..n : buf[i] = (sent - n) + i
          /\ stage = ServerOf(SubSeq(stream, base, Len(stream)))
      BY <2>1, EmptySeq DEF TunnelIInv, Reads, Servers, Layer
    <3>3. buf = [i \in 1..n |-> buf[i]]
      BY <3>1
    <3> HIDE DEF n
    <3>4. n = (sent - base) + 1
      BY <3>1, <3>2
    <3>5. \A i \in 1..n : buf[i] = base + i - 1
      BY <3>1, <3>2, <3>4
    <3>6. QED
      BY <3>2, <3>3, <3>4, <3>5
  <2>2. dropped # <<>> => ~waits
    BY DEF TunnelIInv, Waiting
  <2>3. QED
    BY <2>1, <2>2 DEF RightServer
<1>2. QED
  BY Invariance, <1>1, PTL

\* While a tunnel lasts, each byte the client sent after its request is in one
\* place and in order, but for what overtook the head of a client that did not wait.
THEOREM TunnelKeepsBytes == TunnelSpec => []TunnelFaithful
<1>1. TunnelIInv => TunnelFaithful
  <2> SUFFICES ASSUME TunnelIInv, Tunnelling, ~Over(p)
               PROVE  /\ Positions(p.out \o head) \cup Positions(buf) = 2..sent
                      /\ Len(p.out \o head) + Len(buf) = sent - 1
                      /\ \A i, j \in 1..Len(p.out) : i < j /\ p.out[i] > p.out[j]
                             => ~waits /\ p.out[i] \in early
    BY DEF TunnelFaithful
  <2> DEFINE o == p.out
  <2>1. /\ o \in Seq(1..Len(stream)) /\ head \in Seq(1..Len(stream))
    BY Lengths DEF TunnelIInv
  <2>2. /\ Positions(o) \cup Positions(head) \cup Positions(buf) = 2..sent
        /\ Len(o) + Len(head) + Len(buf) = sent - 1
        /\ \A i, j \in 1..Len(o) : i < j /\ o[i] > o[j] => ~waits /\ o[i] \in early
    BY DEF TunnelIInv, Ends, Joined
  <2> HIDE DEF o
  <2>3. /\ Positions(o \o head) = Positions(o) \cup Positions(head)
        /\ Len(o \o head) = Len(o) + Len(head)
    <3> DEFINE S == 1..Len(stream)
    <3>1. o \in Seq(S) /\ head \in Seq(S)
      BY <2>1
    <3> HIDE DEF S
    <3>2. QED
      BY <3>1, PositionsOf
  <2>4. QED
    BY <2>2, <2>3 DEF o
<1>2. QED
  BY Invariance, <1>1, PTL

\* A FIN, an error of either network, a refused connection and a write after end()
\* leave no half of a tunnel behind.
THEOREM TunnelEndsTogether == TunnelSpec => []EndsTogether
<1>1. TunnelIInv => EndsTogether
  BY DEF TunnelIInv, Ends
<1>2. QED
  BY Invariance, <1>1, PTL
=============================================================================
