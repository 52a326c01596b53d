---------------------------- MODULE Rules_proofs ----------------------------
(***************************************************************************)
(* A once rule answers one query, and the lists of the server tell what    *)
(* was answered, for any number of sessions, rules and Resets: proofs of   *)
(* the invariants of Rules.                                                *)
(*                                                                         *)
(* Rules are looked at one by one, and only the mark of a once rule is     *)
(* made under the lock.  The rules marked are those taken since the marks  *)
(* were last cleared, and a query that is still looking has taken none, so *)
(* a query that finds a rule marked finds it marked by another one.        *)
(*                                                                         *)
(* What the lists hold is counted: what is recorded of a query and what    *)
(* its plan has still to record is together what its answer needs, and a   *)
(* plan ends with the answer.                                              *)
(***************************************************************************)
EXTENDS Rules, TLAPS, SequenceTheorems, FiniteSetTheorems

\* What is left to do for a query that has found its rule or its route.
Found == Deeds \ {"match"}

-----------------------------------------------------------------------------
(* The inductive invariant.                                                *)

\* The Resets, the clearings of the marks and the counter of statsStore.
ResetsCounted ==
    /\ stats.resets <= resets
    /\ reset # "idle" => stats.resets < resets
    /\ reset \in {"data", "diagnostics", "rules"} => epoch < resets

Looking(j) == j.todo = <<"match">>

\* A query looks at the rules in their order, and then at none again.
InOrder(j) ==
    /\ j.todo # <<>> => j.id \in 1..asked
    /\ Looking(j) => j.text \in Texts /\ (rules # <<>> => j.at \in DOMAIN rules)
    /\ ~Looking(j) => j.todo \in Seq(Found)

\* The rules a query found used were used by others, and while it looks it has
\* used none itself.
PassedToOthers(j) ==
    /\ \A p \in j.passed : \E t \in takes : t.rule = p[1] /\ t.epoch = p[2] /\ t.id # j.id
    /\ Looking(j) => \A t \in takes : t.id # j.id

\* Two sessions work on two queries.
QueriesApart ==
    \A r, s \in Sessions : job[r].todo # <<>> /\ job[s].todo # <<>> /\ r # s =>
        job[r].id # job[s].id

\* The marks are the rules taken since the marks were cleared, each once.
MarksAreTakes ==
    /\ \A t \in takes : t.epoch = epoch => t.rule \in used
    /\ \A i \in used : \E t \in takes : t.rule = i /\ t.epoch = epoch
    /\ \A t, u \in takes : t.rule = u.rule /\ t.epoch = u.epoch => t = u

RulesInv ==
    /\ TypeOK /\ ResetsCounted /\ QueriesApart /\ MarksAreTakes
    /\ \A s \in Sessions : InOrder(job[s]) /\ PassedToOthers(job[s])

-----------------------------------------------------------------------------
(* Rules and plans.                                                        *)

\* The rules are a sequence, as the configuration has them.
LEMMA RulesAreSequence == TypeOK => /\ rules \in Seq(Range(rules))
                                    /\ Len(rules) \in Nat /\ DOMAIN rules = 1..Len(rules)
                                    /\ rules # <<>> => 1 \in DOMAIN rules
<1>. SUFFICES ASSUME TypeOK PROVE /\ rules \in Seq(Range(rules))
                                  /\ Len(rules) \in Nat /\ DOMAIN rules = 1..Len(rules)
                                  /\ rules # <<>> => 1 \in DOMAIN rules
  OBVIOUS
<1>1. PICK file \in ConfigFiles : rules = Prepared(file)
  BY DEF TypeOK, Accepted
<1>2. file \in Seq(Range(file))
  BY <1>1, RulesAssumption
<1>3. PICK n \in Nat : DOMAIN file = 1..n
  BY <1>2
<1>4. rules = [i \in 1..n |-> rules[i]]
  BY <1>1, <1>3 DEF Prepared
<1>5. \A i \in 1..n : rules[i] \in Range(rules)
  BY <1>4 DEF Range
<1>6. rules \in [1..n -> Range(rules)]
  BY <1>4, <1>5
<1>7. rules \in Seq(Range(rules))
  BY <1>6, SeqDef
<1>. QED
  BY <1>7

LEMMA FoundSequence == \A todo \in Seq(Found) : todo \in Seq(Deeds) /\ todo # <<"match">>
BY DEF Found, Deeds

\* Plans do not look at the rules again.
LEMMA PlansFound ==
    /\ \A route : Plan(route) \in Seq(Found)
    /\ \A r : Response(r) \in Seq(Found)
    /\ RecordedUnsupported \in Seq(Found)
<1>. USE DEF Found, Deeds
<1>1. Logged \in Seq(Found)
  BY DEF Logged
<1>2. RecordedUnsupported \in Seq(Found)
  BY <1>1 DEF RecordedUnsupported
<1>3. /\ <<"answer">> \in Seq(Found) /\ <<"run">> \in Seq(Found)
      /\ <<"time", "answer">> \in Seq(Found) /\ <<"run", "time", "answer">> \in Seq(Found)
  OBVIOUS
<1>4. ASSUME NEW route PROVE Plan(route) \in Seq(Found)
  <2>. USE <1>1, <1>2, <1>3
  <2>. HIDE DEF Found, Deeds
  <2>. QED
    BY DEF Plan
<1>5. ASSUME NEW r PROVE Response(r) \in Seq(Found)
  <2>1. <<"delay">> \in Seq(Found) /\ <<"after">> \in Seq(Found) /\ <<>> \in Seq(Found)
    OBVIOUS
  <2>2. (IF r.delay THEN <<"delay">> ELSE <<>>) \in Seq(Found)
    BY <2>1, Zenon
  <2>3. (IF r.type = "disconnect" /\ r.after THEN <<"after">> ELSE <<>>) \in Seq(Found)
    BY <2>1, Zenon
  <2>. HIDE DEF Found, Deeds
  <2>. QED
    BY <1>4, <2>2, <2>3 DEF Response
<1>. QED
  BY <1>2, <1>4, <1>5

-----------------------------------------------------------------------------
(* The initial states.                                                     *)

LEMMA NoJobType == /\ NoJob \in Jobs /\ NoJob.id = 0 /\ NoJob.todo = <<>>
                   /\ NoJob.passed = {} /\ NoJob.args = <<>> /\ NoJob.text = NoText
                   /\ NoJob.fresh = TRUE /\ NoJob.at = 1 /\ NoJob.answer = "none"
<1>1. MaxQueries \in Nat
  BY RulesAssumption
<1>. QED
  BY <1>1 DEF NoJob, Jobs

LEMMA NoJobInv == InOrder(NoJob) /\ PassedToOthers(NoJob)
BY NoJobType DEF InOrder, PassedToOthers, Looking

LEMMA InitRulesInv == Init => RulesInv
<1>. SUFFICES ASSUME Init PROVE RulesInv
  OBVIOUS
<1>. USE DEF Init
<1>1. MaxQueries \in Nat /\ MaxResets \in Nat
  BY RulesAssumption
<1>2. job \in [Sessions -> Jobs]
  BY NoJobType
<1>3. TypeOK
  BY <1>1, <1>2 DEF TypeOK
<1>4. ResetsCounted /\ MarksAreTakes
  BY DEF ResetsCounted, MarksAreTakes
<1>5. QueriesApart
  BY NoJobType DEF QueriesApart
<1>. QED
  BY <1>3, <1>4, <1>5, NoJobInv DEF RulesInv

-----------------------------------------------------------------------------
(* The steps of a query.                                                   *)

\* What all steps of a query have in common, as the step leaves it; the takes
\* may be more by those of this query.
LEMMA JobStep ==
    ASSUME RulesInv, NEW s \in Sessions, NEW j \in Jobs,
           job' = [job EXCEPT ![s] = j],
           j.todo # <<>> => job[s].todo # <<>> /\ j.id = job[s].id,
           InOrder(j), PassedToOthers(j)',
           UNCHANGED <<rules, asked>>, takes \subseteq takes',
           \A t \in takes' : t \in takes \/ (t.id = job[s].id /\ Looking(job[s]))
    PROVE  /\ job' \in [Sessions -> Jobs]
           /\ QueriesApart'
           /\ \A r \in Sessions : (InOrder(job[r]) /\ PassedToOthers(job[r]))'
<1>1. \A r \in Sessions : job'[r] = IF r = s THEN j ELSE job[r]
  BY DEF RulesInv, TypeOK
<1>2. job' \in [Sessions -> Jobs]
  BY DEF RulesInv, TypeOK
<1>3. QueriesApart'
  BY <1>1 DEF RulesInv, QueriesApart
<1>4. ASSUME NEW r \in Sessions PROVE (InOrder(job[r]) /\ PassedToOthers(job[r]))'
  <2>1. CASE r = s
    BY <1>1, <2>1 DEF InOrder, PassedToOthers, Looking
  <2>2. CASE r # s
    <3>1. job'[r] = job[r] /\ InOrder(job[r]) /\ PassedToOthers(job[r])
      BY <1>1, <2>2 DEF RulesInv
    <3>2. Looking(job[r]) => \A t \in takes' : t.id # job[r].id
      BY <2>2, <3>1 DEF RulesInv, QueriesApart, PassedToOthers, Looking
    <3>. QED
      BY <3>1, <3>2 DEF InOrder, PassedToOthers, Looking
  <2>. QED
    BY <2>1, <2>2
<1>. QED
  BY <1>2, <1>3, <1>4

\* A step of a query that takes no rule: it has to show the query as it leaves
\* it, and the lists and counters.
LEMMA StepInv ==
    ASSUME RulesInv, NEW s \in Sessions, NEW j \in Jobs,
           job' = [job EXCEPT ![s] = j],
           j.todo # <<>> => job[s].todo # <<>> /\ j.id = job[s].id,
           InOrder(j), PassedToOthers(j),
           UNCHANGED <<used, takes, Rest>>,
           queries' \in Seq(1..MaxQueries), unsupported' \in Seq(1..MaxQueries),
           stats' \in [queries : Nat, unsupported : Nat, timed : Nat, resets : 0..MaxResets],
           stats'.resets = stats.resets,
           \A t \in told' : t.id \in 1..asked
    PROVE  RulesInv'
<1>1. UNCHANGED <<rules, reset, asked, resets, epoch, carried, used, takes>>
  BY DEF Rest
<1>2. PassedToOthers(j)'
  BY <1>1 DEF PassedToOthers, Looking
<1>3. /\ job' \in [Sessions -> Jobs]
      /\ QueriesApart'
      /\ \A r \in Sessions : (InOrder(job[r]) /\ PassedToOthers(job[r]))'
  BY <1>1, <1>2, JobStep
<1>4. TypeOK'
  BY <1>1, <1>3 DEF RulesInv, TypeOK
<1>5. ResetsCounted' /\ MarksAreTakes'
  BY <1>1 DEF RulesInv, ResetsCounted, MarksAreTakes
<1>. QED
  BY <1>3, <1>4, <1>5 DEF RulesInv

\* A step that leaves the lists and counters too.
LEMMA QuietStepInv ==
    ASSUME RulesInv, NEW s \in Sessions, NEW j \in Jobs,
           job' = [job EXCEPT ![s] = j],
           j.todo # <<>> => job[s].todo # <<>> /\ j.id = job[s].id,
           InOrder(j), PassedToOthers(j),
           UNCHANGED <<used, takes, Rest, kept, told>>
    PROVE  RulesInv'
<1>1. /\ queries' \in Seq(1..MaxQueries) /\ unsupported' \in Seq(1..MaxQueries)
      /\ stats' \in [queries : Nat, unsupported : Nat, timed : Nat, resets : 0..MaxResets]
      /\ stats'.resets = stats.resets
      /\ \A t \in told' : t.id \in 1..asked
  BY DEF RulesInv, TypeOK, kept
<1>. QED
  BY <1>1, StepInv

\* A query that has found what to do.
LEMMA PlannedQuery ==
    ASSUME NEW j \in Jobs, NEW todo \in Seq(Found),
           NEW answer \in {"none", "rule", "done", "error", "unsupported", "syntax", "empty"},
           j.id \in 1..asked
    PROVE  /\ Planned(j, todo, answer) \in Jobs
           /\ Planned(j, todo, answer).todo = todo
           /\ Planned(j, todo, answer).id = j.id
           /\ Planned(j, todo, answer).passed = j.passed
           /\ InOrder(Planned(j, todo, answer))
           /\ ~Looking(Planned(j, todo, answer))
<1>1. todo \in Seq(Deeds)
  BY FoundSequence
<1>2. todo # <<"match">>
  BY FoundSequence
<1>3. Planned(j, todo, answer) \in Jobs
  BY <1>1 DEF Planned, Jobs
<1>4. /\ Planned(j, todo, answer).todo = todo
      /\ Planned(j, todo, answer).id = j.id
      /\ Planned(j, todo, answer).passed = j.passed
  BY DEF Planned, Jobs
<1>. QED
  BY <1>2, <1>3, <1>4 DEF InOrder, Looking

LEMMA AnswerType ==
    \A route : Answer(route) \in
        {"none", "rule", "done", "error", "unsupported", "syntax", "empty"}
BY DEF Answer

\* A session whose query looks at the rules.
LEMMA LookingQuery ==
    ASSUME RulesInv, NEW s \in Sessions, Doing(s, "match")
    PROVE  /\ job[s] \in Jobs /\ Looking(job[s]) /\ job[s].todo # <<>>
           /\ job[s].id \in 1..asked /\ job[s].text \in Texts
           /\ rules # <<>> => job[s].at \in DOMAIN rules
           /\ \A t \in takes : t.id # job[s].id
           /\ PassedToOthers(job[s])
<1>1. job[s] \in Jobs /\ InOrder(job[s]) /\ PassedToOthers(job[s])
  BY DEF RulesInv, TypeOK
<1>2. Looking(job[s])
  <2>1. CASE job[s].todo \in Seq(Found)
    <3>1. Head(job[s].todo) \in Found
      BY <2>1, HeadTailProperties DEF Doing
    <3>. QED
      BY <3>1 DEF Doing, Found
  <2>. QED
    BY <1>1, <2>1 DEF InOrder
<1>. QED
  BY <1>1, <1>2 DEF InOrder, PassedToOthers, Doing

\* The query goes on to the next rule, or to its route; in both cases with the
\* rules it passed.
LEMMA PassingQuery ==
    ASSUME RulesInv, NEW s \in Sessions, Doing(s, "match"), rules # <<>>,
           NEW passed \in SUBSET (Nat \X (0..MaxResets)),
           \A p \in passed : \E t \in takes :
               t.rule = p[1] /\ t.epoch = p[2] /\ t.id # job[s].id,
           PassesRule(s, passed)
    PROVE  \E j \in Jobs : /\ job' = [job EXCEPT ![s] = j]
                           /\ j.id = job[s].id
                           /\ InOrder(j) /\ PassedToOthers(j)
<1>1. /\ job[s] \in Jobs /\ Looking(job[s]) /\ job[s].id \in 1..asked
      /\ job[s].text \in Texts /\ job[s].at \in DOMAIN rules
      /\ \A t \in takes : t.id # job[s].id
  BY LookingQuery
<1>2. PICK k \in Jobs : k = job[s]
  BY <1>1
<1>. DEFINE p == [k EXCEPT !.passed = passed]
<1>3. /\ p \in Jobs /\ p.id = k.id /\ p.passed = passed /\ p.at = k.at /\ p.text = k.text
      /\ p.todo = k.todo
  BY DEF Jobs
<1>4. DOMAIN rules = 1..Len(rules) /\ Len(rules) \in Nat
  BY RulesAreSequence DEF RulesInv
<1>5. CASE k.at < Len(rules)
  <2>. DEFINE j == [p EXCEPT !.at = @ + 1]
  <2>1. job' = [job EXCEPT ![s] = j]
    BY <1>2, <1>3, <1>5 DEF PassesRule
  <2>. HIDE DEF p
  <2>2. k.at \in Nat /\ k.at + 1 \in DOMAIN rules
    BY <1>1, <1>2, <1>4, <1>5
  <2>3. /\ j \in Jobs /\ j.id = k.id /\ j.passed = passed /\ j.at = k.at + 1
        /\ j.text = k.text /\ j.todo = k.todo
    BY <1>3, <2>2 DEF Jobs
  <2>4. InOrder(j)
    BY <1>1, <1>2, <2>2, <2>3 DEF InOrder, Looking
  <2>5. PassedToOthers(j)
    BY <1>1, <1>2, <2>3 DEF PassedToOthers
  <2>. HIDE DEF j
  <2>. QED
    BY <1>2, <2>1, <2>3, <2>4, <2>5
<1>6. CASE ~(k.at < Len(rules))
  <2>. DEFINE route == Route[k.text]
              j == Planned(p, Plan(route), Answer(route))
  <2>1. job' = [job EXCEPT ![s] = j]
    BY <1>2, <1>3, <1>6 DEF PassesRule
  <2>. HIDE DEF p, route
  <2>2. /\ Plan(route) \in Seq(Found) /\ p.id \in 1..asked
        /\ Answer(route) \in
              {"none", "rule", "done", "error", "unsupported", "syntax", "empty"}
    BY <1>1, <1>2, <1>3, PlansFound, AnswerType
  <2>3. /\ j \in Jobs /\ j.id = k.id /\ j.passed = passed /\ InOrder(j) /\ ~Looking(j)
    BY <1>3, <2>2, PlannedQuery
  <2>4. PassedToOthers(j)
    BY <1>2, <2>3 DEF PassedToOthers
  <2>. HIDE DEF j
  <2>. QED
    BY <1>2, <2>1, <2>3, <2>4
<1>. QED
  BY <1>5, <1>6

\* The query takes the rule it looks at.
LEMMA TakingQuery ==
    ASSUME RulesInv, NEW s \in Sessions, Doing(s, "match"), TakesRule(s)
    PROVE  \E j \in Jobs : /\ job' = [job EXCEPT ![s] = j]
                           /\ j.id = job[s].id /\ j.passed = job[s].passed
                           /\ InOrder(j) /\ ~Looking(j)
<1>1. job[s] \in Jobs /\ job[s].id \in 1..asked
  BY LookingQuery
<1>2. PICK k \in Jobs : k = job[s]
  BY <1>1
<1>. DEFINE todo == Response(rules[k.at])
            j == Planned(k, todo, "rule")
<1>3. job' = [job EXCEPT ![s] = j]
  BY <1>2 DEF TakesRule
<1>4. todo \in Seq(Found)
  BY PlansFound
<1>. HIDE DEF todo
<1>5. /\ j \in Jobs /\ j.id = k.id /\ j.passed = k.passed /\ InOrder(j) /\ ~Looking(j)
  BY <1>1, <1>2, <1>4, PlannedQuery
<1>. HIDE DEF j
<1>. QED
  BY <1>2, <1>3, <1>5

\* The step in which one rule is looked at.
LEMMA MatchInv == ASSUME RulesInv, NEW s \in Sessions, MatchRule(s) PROVE RulesInv'
<1>. DEFINE i == job[s].at
<1>0. Doing(s, "match") /\ rules # <<>>
      /\ UNCHANGED <<rules, reset, asked, resets, epoch, carried, kept, told>>
  BY DEF MatchRule, Rest
<1>1. /\ job[s] \in Jobs /\ Looking(job[s]) /\ job[s].id \in 1..asked
      /\ job[s].todo # <<>> /\ i \in DOMAIN rules
      /\ \A t \in takes : t.id # job[s].id
      /\ PassedToOthers(job[s])
  BY <1>0, LookingQuery
<1>2. job[s].passed \in SUBSET (Nat \X (0..MaxResets))
  BY <1>1 DEF Jobs
<1>3. ASSUME PassesRule(s, job[s].passed), UNCHANGED <<used, takes>> PROVE RulesInv'
  <2>1. PICK j \in Jobs : /\ job' = [job EXCEPT ![s] = j] /\ j.id = job[s].id
                         /\ InOrder(j) /\ PassedToOthers(j)
    BY <1>0, <1>1, <1>2, <1>3, PassingQuery DEF PassedToOthers
  <2>. QED
    BY <1>0, <1>1, <1>3, <2>1, QuietStepInv DEF Rest
<1>4. ASSUME Matched(s), rules[i].once, i \in used, UNCHANGED <<used, takes>>,
             PassesRule(s, job[s].passed \cup {<<i, epoch>>})
      PROVE  RulesInv'
  <2>. DEFINE passed == job[s].passed \cup {<<i, epoch>>}
  <2>1. PICK t \in takes : t.rule = i /\ t.epoch = epoch
    BY <1>4 DEF RulesInv, MarksAreTakes
  <2>2. t.id # job[s].id
    BY <1>1
  <2>3. \A p \in passed : \E u \in takes :
            u.rule = p[1] /\ u.epoch = p[2] /\ u.id # job[s].id
    BY <1>1, <2>1, <2>2 DEF PassedToOthers
  <2>4. <<i, epoch>> \in Nat \X (0..MaxResets)
    <3>1. i \in Nat
      BY <1>1, RulesAreSequence DEF RulesInv
    <3>2. epoch \in 0..MaxResets
      BY RulesAssumption DEF RulesInv, TypeOK
    <3>. QED
      BY <3>1, <3>2
  <2>5. passed \in SUBSET (Nat \X (0..MaxResets))
    BY <1>2, <2>4
  <2>6. PassesRule(s, passed)
    BY <1>4
  <2>. HIDE DEF passed
  <2>7. PICK j \in Jobs : /\ job' = [job EXCEPT ![s] = j] /\ j.id = job[s].id
                         /\ InOrder(j) /\ PassedToOthers(j)
    BY <1>0, <2>3, <2>5, <2>6, PassingQuery
  <2>. QED
    BY <1>0, <1>1, <1>4, <2>7, QuietStepInv DEF Rest
<1>5. ASSUME TakesRule(s), UNCHANGED <<used, takes>> PROVE RulesInv'
  <2>1. PICK j \in Jobs : /\ job' = [job EXCEPT ![s] = j]
                         /\ j.id = job[s].id /\ j.passed = job[s].passed
                         /\ InOrder(j) /\ ~Looking(j)
    BY <1>0, <1>5, TakingQuery
  <2>2. PassedToOthers(j)
    BY <1>1, <2>1 DEF PassedToOthers
  <2>. QED
    BY <1>0, <1>1, <1>5, <2>1, <2>2, QuietStepInv DEF Rest
<1>6. ASSUME i \notin used, TakesRule(s), Uses(s, i) PROVE RulesInv'
  <2>. DEFINE take == [rule |-> i, epoch |-> epoch, id |-> job[s].id]
  <2>1. PICK j \in Jobs : /\ job' = [job EXCEPT ![s] = j]
                         /\ j.id = job[s].id /\ j.passed = job[s].passed
                         /\ InOrder(j) /\ ~Looking(j)
    BY <1>0, <1>6, TakingQuery
  <2>2. used' = used \cup {i} /\ takes' = takes \cup {take}
    BY <1>6 DEF Uses, Marked
  <2>3. PassedToOthers(j)'
    BY <1>1, <2>1, <2>2 DEF PassedToOthers, Looking
  <2>4. take.rule = i /\ take.epoch = epoch /\ take.id = job[s].id
    OBVIOUS
  <2>5. /\ job' \in [Sessions -> Jobs]
        /\ QueriesApart'
        /\ \A r \in Sessions : (InOrder(job[r]) /\ PassedToOthers(job[r]))'
    <3>. HIDE DEF take
    <3>1. takes \subseteq takes'
          /\ \A t \in takes' : t \in takes \/ (t.id = job[s].id /\ Looking(job[s]))
      BY <1>1, <2>2, <2>4
    <3>. QED
      BY <1>0, <1>1, <2>1, <2>3, <3>1, JobStep
  <2>6. take \in [rule : DOMAIN rules, epoch : 0..epoch, id : 1..asked]
    BY <1>1 DEF RulesInv, TypeOK
  <2>7. TypeOK'
    <3>1. /\ used' \subseteq DOMAIN rules
          /\ takes' \subseteq [rule : DOMAIN rules, epoch : 0..epoch, id : 1..asked]
      <4>. HIDE DEF take
      <4>. QED
        BY <1>1, <2>2, <2>6 DEF RulesInv, TypeOK
    <3>. QED
      BY <1>0, <2>5, <3>1 DEF RulesInv, TypeOK, kept
  <2>8. ResetsCounted'
    BY <1>0 DEF RulesInv, ResetsCounted, kept
  <2>9. MarksAreTakes'
    <3>. HIDE DEF take
    <3>1. \A t \in takes : t.rule = i => t.epoch # epoch
      BY <1>6 DEF RulesInv, MarksAreTakes
    <3>. QED
      BY <1>0, <2>2, <2>4, <3>1 DEF RulesInv, MarksAreTakes
  <2>. QED
    BY <2>5, <2>7, <2>8, <2>9 DEF RulesInv
<1>. QED
  BY <1>3, <1>4, <1>5, <1>6 DEF MatchRule

\* A query that has found what to do, when it has done the next thing of it.
LEMMA DoneQuery ==
    ASSUME RulesInv, NEW s \in Sessions, NEW deed, Doing(s, deed), deed # "match"
    PROVE  /\ job[s] \in Jobs /\ job[s].todo \in Seq(Found) /\ job[s].todo # <<>>
           /\ job[s].id \in 1..asked /\ PassedToOthers(job[s])
           /\ Done(s) \in Jobs /\ Done(s).todo = Tail(job[s].todo)
           /\ Done(s).todo \in Seq(Found)
           /\ Done(s).id = job[s].id /\ Done(s).passed = job[s].passed
           /\ InOrder(Done(s)) /\ PassedToOthers(Done(s))
<1>1. job[s] \in Jobs /\ InOrder(job[s]) /\ PassedToOthers(job[s]) /\ job[s].todo # <<>>
  BY DEF RulesInv, TypeOK, Doing
<1>2. ~Looking(job[s])
  BY DEF Doing, Looking
<1>3. job[s].todo \in Seq(Found) /\ job[s].id \in 1..asked
  BY <1>1, <1>2 DEF InOrder
<1>4. Tail(job[s].todo) \in Seq(Found)
  BY <1>1, <1>3, HeadTailProperties
<1>5. Tail(job[s].todo) \in Seq(Deeds) /\ Tail(job[s].todo) # <<"match">>
  BY <1>4, FoundSequence
<1>6. PICK k \in Jobs : k = job[s]
  BY <1>1
<1>7. /\ Done(s) \in Jobs /\ Done(s).todo = Tail(job[s].todo)
      /\ Done(s).id = job[s].id /\ Done(s).passed = job[s].passed
  <2>1. Done(s) = [k EXCEPT !.todo = Tail(k.todo)]
    BY <1>6 DEF Done
  <2>. QED
    BY <1>5, <1>6, <2>1 DEF Jobs
<1>8. InOrder(Done(s)) /\ PassedToOthers(Done(s))
  BY <1>1, <1>3, <1>4, <1>5, <1>7 DEF InOrder, PassedToOthers, Looking
<1>. QED
  BY <1>1, <1>3, <1>4, <1>7, <1>8

\* The other steps of a query.
LEMMA AskInv == ASSUME RulesInv, NEW s \in Sessions, Ask(s) PROVE RulesInv'
<1>. USE DEF Ask
<1>1. PICK input \in Inputs : job' = [job EXCEPT ![s] =
          [NoJob EXCEPT !.id = asked + 1, !.text = input[1], !.args = input[2],
             !.todo = IF Route[input[1]] = "empty" THEN Plan("empty") ELSE <<"match">>,
             !.answer = IF Route[input[1]] = "empty" THEN "empty" ELSE "none"]]
  OBVIOUS
<1>. DEFINE todo == IF Route[input[1]] = "empty" THEN Plan("empty") ELSE <<"match">>
            answer == IF Route[input[1]] = "empty" THEN "empty" ELSE "none"
            new == [NoJob EXCEPT !.id = asked + 1, !.text = input[1], !.args = input[2],
                                 !.todo = todo, !.answer = answer]
<1>2. /\ job[s].todo = <<>> /\ asked' = asked + 1
      /\ asked \in Nat /\ asked' \in 0..MaxQueries /\ input[1] \in Texts
      /\ UNCHANGED <<rules, used, queries, unsupported, stats, reset, resets, epoch, takes,
                     told, carried>>
  <2>1. MaxQueries \in Nat /\ input[1] \in Texts
    BY RulesAssumption
  <2>. QED
    BY <2>1 DEF RulesInv, TypeOK, kept, history
<1>3. Plan("empty") \in Seq(Found) /\ Plan("empty") \in Seq(Deeds) /\ <<"match">> \in Seq(Deeds)
  BY PlansFound, FoundSequence DEF Deeds
<1>4. todo \in Seq(Deeds) /\ (todo = <<"match">> \/ todo \in Seq(Found))
  BY <1>3
<1>5. PICK j \in Jobs :
          /\ job' = [job EXCEPT ![s] = j]
          /\ j.id = asked + 1 /\ j.text = input[1] /\ j.passed = {} /\ j.at = 1
          /\ j.todo \in Seq(Deeds) /\ (Looking(j) \/ j.todo \in Seq(Found))
  <2>1. job' = [job EXCEPT ![s] = new]
    BY <1>1
  <2>. HIDE DEF todo
  <2>2. asked + 1 \in 0..MaxQueries /\ answer \in {"none", "empty"}
    BY <1>2
  <2>3. input[2] \in {<<>>} \cup {i[2] : i \in Inputs}
    BY <1>1
  <2>4. /\ new \in Jobs /\ new.id = asked + 1 /\ new.text = input[1] /\ new.todo = todo
        /\ new.passed = {} /\ new.at = 1
    BY <1>2, <1>4, <2>2, <2>3, NoJobType DEF Jobs
  <2>. HIDE DEF new
  <2>. QED
    BY <1>4, <2>1, <2>4 DEF Looking
<1>. HIDE DEF new, todo, answer
<1>6. \A r \in Sessions : job'[r] = IF r = s THEN j ELSE job[r]
  BY <1>5 DEF RulesInv, TypeOK
<1>7. job' \in [Sessions -> Jobs]
  BY <1>5 DEF RulesInv, TypeOK
<1>8. \A r \in Sessions : job[r].todo # <<>> => job[r].id \in 1..asked
  BY DEF RulesInv, InOrder
<1>9. QueriesApart'
  BY <1>2, <1>5, <1>6, <1>8 DEF RulesInv, QueriesApart
<1>10. \A t \in takes : t.id \in 1..asked
  BY DEF RulesInv, TypeOK
<1>11. ASSUME NEW r \in Sessions PROVE (InOrder(job[r]) /\ PassedToOthers(job[r]))'
  <2>1. CASE r = s
    <3>1. job'[r] = j
      BY <1>6, <2>1
    <3>2. InOrder(j)'
      BY <1>2, <1>5, RulesAreSequence DEF InOrder, Looking, RulesInv
    <3>3. PassedToOthers(j)'
      BY <1>2, <1>5, <1>10 DEF PassedToOthers
    <3>. QED
      BY <3>1, <3>2, <3>3 DEF InOrder, PassedToOthers, Looking
  <2>2. CASE r # s
    <3>1. job'[r] = job[r] /\ InOrder(job[r]) /\ PassedToOthers(job[r])
      BY <1>6, <2>2 DEF RulesInv
    <3>2. 1..asked \subseteq 1..asked'
      BY <1>2
    <3>3. InOrder(job[r])'
      BY <1>2, <3>1, <3>2 DEF InOrder, Looking
    <3>4. PassedToOthers(job[r])'
      <4>1. PICK k : k = job[r] /\ k = job'[r] /\ PassedToOthers(k)
        BY <3>1
      <4>2. takes' = takes
        BY <1>2
      <4>3. PassedToOthers(k)'
        BY <4>1, <4>2 DEF PassedToOthers
      <4>. QED
        BY <4>1, <4>3 DEF PassedToOthers
    <3>. QED
      BY <3>3, <3>4
  <2>. QED
    BY <2>1, <2>2
<1>12. TypeOK'
  <2>1. /\ takes' \subseteq [rule : DOMAIN rules, epoch : 0..epoch, id : 1..asked']
        /\ \A t \in told' : t.id \in 1..asked'
        /\ carried' \subseteq 1..asked'
    <3>1. 1..asked \subseteq 1..asked'
      BY <1>2
    <3>. QED
      BY <1>2, <3>1 DEF RulesInv, TypeOK
  <2>. QED
    BY <1>2, <1>7, <2>1 DEF RulesInv, TypeOK
<1>13. ResetsCounted' /\ MarksAreTakes'
  BY <1>2 DEF RulesInv, ResetsCounted, MarksAreTakes
<1>. QED
  BY <1>9, <1>11, <1>12, <1>13 DEF RulesInv

LEMMA SessionInv == ASSUME RulesInv, NEW s \in Sessions, SessionStep(s) PROVE RulesInv'
<1>0. /\ queries \in Seq(1..MaxQueries) /\ unsupported \in Seq(1..MaxQueries)
      /\ stats \in [queries : Nat, unsupported : Nat, timed : Nat, resets : 0..MaxResets]
      /\ \A t \in told : t.id \in 1..asked
      /\ 1..asked \subseteq 1..MaxQueries
  BY RulesAssumption DEF RulesInv, TypeOK
<1>1. CASE NoRules(s)
  <2>. DEFINE route == Route[job[s].text]
              j == Planned(job[s], Plan(route), Answer(route))
  <2>1. /\ Doing(s, "match") /\ job' = [job EXCEPT ![s] = j]
        /\ UNCHANGED <<used, takes, Rest, kept, told>>
    BY <1>1 DEF NoRules
  <2>2. /\ job[s] \in Jobs /\ job[s].id \in 1..asked /\ job[s].todo # <<>>
        /\ PassedToOthers(job[s])
    BY <2>1, LookingQuery
  <2>. HIDE DEF route
  <2>3. /\ Plan(route) \in Seq(Found)
        /\ Answer(route) \in
              {"none", "rule", "done", "error", "unsupported", "syntax", "empty"}
    BY PlansFound, AnswerType
  <2>4. /\ j \in Jobs /\ j.id = job[s].id /\ j.passed = job[s].passed /\ InOrder(j) /\ ~Looking(j)
    BY <2>2, <2>3, PlannedQuery
  <2>5. PassedToOthers(j)
    BY <2>2, <2>4 DEF PassedToOthers
  <2>. HIDE DEF j
  <2>. QED
    BY <2>1, <2>2, <2>4, <2>5, QuietStepInv
<1>2. CASE Delay(s)
  <2>1. PICK deed \in {"delay", "after"} : Doing(s, deed)
    BY <1>2 DEF Delay
  <2>2. /\ Done(s) \in Jobs /\ Done(s).id = job[s].id /\ job[s].todo # <<>>
        /\ InOrder(Done(s)) /\ PassedToOthers(Done(s))
    BY <2>1, DoneQuery
  <2>. QED
    BY <1>2, <2>2, QuietStepInv DEF Delay, Next1
<1>3. CASE Run(s)
  <2>. DEFINE e == [Done(s) EXCEPT !.answer = "error"]
              y == [Done(s) EXCEPT !.answer = "syntax", !.todo = AfterSyntaxError(@)]
  <2>1. /\ Doing(s, "run") /\ UNCHANGED <<used, takes, Rest, kept, told>>
        /\ \/ job' = [job EXCEPT ![s] = Done(s)]
           \/ job' = [job EXCEPT ![s] = e]
           \/ job' = [job EXCEPT ![s] = y]
    BY <1>3 DEF Run, Next1
  <2>2. /\ job[s].id \in 1..asked /\ job[s].todo # <<>> /\ Done(s) \in Jobs
        /\ Done(s).id = job[s].id /\ Done(s).todo \in Seq(Found)
        /\ InOrder(Done(s)) /\ PassedToOthers(Done(s))
    BY <2>1, DoneQuery
  <2>3. /\ e \in Jobs /\ e.id = job[s].id /\ e.todo = Done(s).todo
        /\ e.passed = Done(s).passed
    BY <2>2 DEF Jobs
  <2>4. AfterSyntaxError(Done(s).todo) \in Seq(Found)
    <3>1. BeforeAnswer(Done(s).todo) \in Seq(Found)
      BY <2>2 DEF BeforeAnswer
    <3>2. <<"answer">> \in Seq(Found)
      BY DEF Found, Deeds
    <3>. QED
      BY <3>1, <3>2, PlansFound DEF AfterSyntaxError
  <2>5. AfterSyntaxError(Done(s).todo) \in Seq(Deeds)
        /\ AfterSyntaxError(Done(s).todo) # <<"match">>
    BY <2>4, FoundSequence
  <2>6. /\ y \in Jobs /\ y.id = job[s].id /\ y.todo = AfterSyntaxError(Done(s).todo)
        /\ y.passed = Done(s).passed
    BY <2>2, <2>5 DEF Jobs
  <2>. HIDE DEF e, y
  <2>7. Done(s).todo # <<"match">>
    BY <2>2, FoundSequence
  <2>8. InOrder(e) /\ PassedToOthers(e)
    BY <2>2, <2>3, <2>7 DEF InOrder, PassedToOthers, Looking
  <2>9. InOrder(y) /\ PassedToOthers(y)
    BY <2>2, <2>4, <2>5, <2>6 DEF InOrder, PassedToOthers, Looking
  <2>. QED
    BY <2>1, <2>2, <2>3, <2>6, <2>8, <2>9, QuietStepInv
<1>4. CASE Count(s) \/ CountUnsupported(s) \/ Time(s)
  <2>1. PICK deed \in {"count", "countUnsupported", "time"} : Doing(s, deed)
    BY <1>4 DEF Count, CountUnsupported, Time
  <2>2. /\ Done(s) \in Jobs /\ Done(s).id = job[s].id /\ job[s].todo # <<>>
        /\ InOrder(Done(s)) /\ PassedToOthers(Done(s))
    BY <2>1, DoneQuery
  <2>3. stats' \in [queries : Nat, unsupported : Nat, timed : Nat, resets : 0..MaxResets]
        /\ stats'.resets = stats.resets
    BY <1>0, <1>4 DEF Count, CountUnsupported, Time
  <2>4. /\ UNCHANGED <<used, takes, Rest, queries, unsupported, told>>
        /\ job' = [job EXCEPT ![s] = Done(s)]
    BY <1>4 DEF Count, CountUnsupported, Time, Next1
  <2>. QED
    BY <1>0, <2>2, <2>3, <2>4, StepInv
<1>5. CASE Event(s) \/ Unsupported(s)
  <2>1. PICK deed \in {"event", "unsupported"} : Doing(s, deed)
    BY <1>5 DEF Event, Unsupported
  <2>2. /\ Done(s) \in Jobs /\ Done(s).id = job[s].id /\ job[s].todo # <<>>
        /\ InOrder(Done(s)) /\ PassedToOthers(Done(s)) /\ job[s].id \in 1..asked
    BY <2>1, DoneQuery
  <2>3. queries' \in Seq(1..MaxQueries) /\ unsupported' \in Seq(1..MaxQueries)
    <3>1. job[s].id \in 1..MaxQueries
      BY <1>0, <2>2
    <3>2. /\ Append(queries, job[s].id) \in Seq(1..MaxQueries)
          /\ Append(unsupported, job[s].id) \in Seq(1..MaxQueries)
      BY <1>0, <3>1, AppendProperties
    <3>. QED
      BY <1>0, <1>5, <3>2 DEF Event, Unsupported
  <2>4. UNCHANGED <<used, takes, Rest, stats, told>> /\ job' = [job EXCEPT ![s] = Done(s)]
    BY <1>5 DEF Event, Unsupported, Next1
  <2>. QED
    BY <1>0, <2>2, <2>3, <2>4, StepInv
<1>6. CASE Tell(s)
  <2>. DEFINE j == IF Len(job[s].todo) = 1 THEN NoJob ELSE Done(s)
  <2>1. /\ Doing(s, "answer") /\ job' = [job EXCEPT ![s] = j]
        /\ UNCHANGED <<used, takes, kept, Rest>>
        /\ told' \subseteq told \cup {[id |-> job[s].id, answer |-> job[s].answer]}
    BY <1>6 DEF Tell
  <2>2. /\ Done(s) \in Jobs /\ Done(s).id = job[s].id /\ job[s].todo # <<>>
        /\ InOrder(Done(s)) /\ PassedToOthers(Done(s)) /\ job[s].id \in 1..asked
    BY <2>1, DoneQuery
  <2>3. j \in Jobs /\ (j.todo # <<>> => j.id = job[s].id) /\ InOrder(j) /\ PassedToOthers(j)
    BY <2>2, NoJobType, NoJobInv
  <2>4. \A t \in told' : t.id \in 1..asked
    BY <1>0, <2>1, <2>2
  <2>5. UNCHANGED <<queries, unsupported, stats>>
    BY <2>1 DEF kept
  <2>. HIDE DEF j
  <2>. QED
    BY <1>0, <2>1, <2>2, <2>3, <2>4, <2>5, StepInv
<1>. QED
  BY <1>1, <1>2, <1>3, <1>4, <1>5, <1>6, MatchInv DEF SessionStep

-----------------------------------------------------------------------------
(* The steps of Reset.                                                     *)

LEMMA ResetInv == ASSUME RulesInv, ResetCalled \/ ResetStep PROVE RulesInv'
<1>1. MaxResets \in Nat /\ resets \in 0..MaxResets /\ epoch \in 0..resets
      /\ stats \in [queries : Nat, unsupported : Nat, timed : Nat, resets : 0..MaxResets]
  BY RulesAssumption DEF RulesInv, TypeOK
<1>2. ASSUME UNCHANGED <<rules, used, job, asked, takes, epoch>>,
             TypeOK', ResetsCounted'
      PROVE  RulesInv'
  BY <1>2 DEF RulesInv, QueriesApart, MarksAreTakes, InOrder, PassedToOthers, Looking
<1>3. CASE ResetCalled
  <2>1. TypeOK'
    BY <1>1, <1>3 DEF ResetCalled, RulesInv, TypeOK, kept, history
  <2>2. ResetsCounted'
    BY <1>1, <1>3 DEF ResetCalled, RulesInv, ResetsCounted, kept, history
  <2>. QED
    BY <1>2, <1>3, <2>1, <2>2 DEF ResetCalled, history
<1>4. CASE ResetData
  <2>1. TypeOK'
    BY <1>4 DEF ResetData, RulesInv, TypeOK, kept, history
  <2>2. ResetsCounted'
    BY <1>4 DEF ResetData, RulesInv, ResetsCounted, kept, history
  <2>. QED
    BY <1>2, <1>4, <2>1, <2>2 DEF ResetData, history
<1>5. CASE ResetDiagnostics
  <2>. USE <1>5 DEF ResetDiagnostics
  <2>1. \A s \in Sessions :
          /\ job'[s] \in Jobs
          /\ job'[s].id = job[s].id /\ job'[s].todo = job[s].todo
          /\ job'[s].text = job[s].text /\ job'[s].at = job[s].at
          /\ job'[s].passed = job[s].passed
    <3>. SUFFICES ASSUME NEW s \in Sessions
                  PROVE  /\ job'[s] \in Jobs
                         /\ job'[s].id = job[s].id /\ job'[s].todo = job[s].todo
                         /\ job'[s].text = job[s].text /\ job'[s].at = job[s].at
                         /\ job'[s].passed = job[s].passed
      OBVIOUS
    <3>1. PICK k \in Jobs : k = job[s]
      BY DEF RulesInv, TypeOK
    <3>2. job'[s] = IF s \in UnderWay THEN [k EXCEPT !.fresh = FALSE] ELSE k
      BY <3>1
    <3>. QED
      BY <3>1, <3>2 DEF Jobs
  <2>2. carried' \subseteq 1..asked
    BY DEF RulesInv, InOrder, UnderWay
  <2>3. job' \in [Sessions -> Jobs]
    BY <2>1
  <2>4. TypeOK'
    BY <2>2, <2>3 DEF RulesInv, TypeOK
  <2>5. ResetsCounted' /\ MarksAreTakes'
    BY DEF RulesInv, ResetsCounted, MarksAreTakes
  <2>6. QueriesApart'
    BY <2>1 DEF RulesInv, QueriesApart
  <2>7. \A s \in Sessions : (InOrder(job[s]) /\ PassedToOthers(job[s]))'
    BY <2>1 DEF RulesInv, InOrder, PassedToOthers, Looking
  <2>. QED
    BY <2>4, <2>5, <2>6, <2>7 DEF RulesInv
<1>6. CASE ResetRules
  <2>. USE <1>6 DEF ResetRules
  <2>1. epoch' = epoch + 1 /\ epoch' \in 0..resets
    BY <1>1 DEF RulesInv, ResetsCounted
  <2>2. takes \subseteq [rule : DOMAIN rules, epoch : 0..epoch, id : 1..asked]
    BY DEF RulesInv, TypeOK
  <2>3. takes' \subseteq [rule : DOMAIN rules', epoch : 0..epoch', id : 1..asked']
    <3>1. 0..epoch \subseteq 0..epoch'
      BY <1>1, <2>1
    <3>. QED
      BY <2>2, <3>1
  <2>4. TypeOK'
    BY <2>1, <2>3 DEF RulesInv, TypeOK, kept
  <2>5. ResetsCounted'
    BY <2>1 DEF RulesInv, ResetsCounted, kept
  <2>6. \A t \in takes : t.epoch # epoch'
    BY <1>1, <2>1, <2>2
  <2>7. MarksAreTakes'
    BY <2>6 DEF RulesInv, MarksAreTakes
  <2>8. QueriesApart' /\ \A s \in Sessions : (InOrder(job[s]) /\ PassedToOthers(job[s]))'
    BY DEF RulesInv, QueriesApart, InOrder, PassedToOthers, Looking
  <2>. QED
    BY <2>4, <2>5, <2>7, <2>8 DEF RulesInv
<1>7. CASE ResetCounted
  <2>1. stats.resets < resets /\ stats' = [stats EXCEPT !.resets = @ + 1]
    BY <1>7 DEF ResetCounted, RulesInv, ResetsCounted
  <2>2. stats' \in [queries : Nat, unsupported : Nat, timed : Nat, resets : 0..MaxResets]
        /\ stats'.resets = stats.resets + 1
    BY <1>1, <2>1
  <2>3. TypeOK'
    BY <1>7, <2>2 DEF ResetCounted, RulesInv, TypeOK, history
  <2>4. ResetsCounted'
    BY <1>1, <1>7, <2>1, <2>2 DEF ResetCounted, RulesInv, ResetsCounted, history
  <2>. QED
    BY <1>2, <1>7, <2>3, <2>4 DEF ResetCounted, history
<1>. QED
  BY <1>3, <1>4, <1>5, <1>6, <1>7 DEF ResetStep

LEMMA NextRulesInv == RulesInv /\ [Next]_vars => RulesInv'
<1>1. ASSUME RulesInv, UNCHANGED vars PROVE RulesInv'
  <2>1. UNCHANGED <<rules, used, queries, unsupported, stats, reset, job, asked, resets,
                    epoch, takes, told, carried>>
    BY <1>1 DEF vars, kept, history
  <2>2. TypeOK'
    BY <1>1, <2>1 DEF RulesInv, TypeOK
  <2>3. ResetsCounted' /\ QueriesApart' /\ MarksAreTakes'
    BY <1>1, <2>1 DEF RulesInv, ResetsCounted, QueriesApart, MarksAreTakes
  <2>4. ASSUME NEW s \in Sessions PROVE InOrder(job[s])' /\ PassedToOthers(job[s])'
    <3>1. InOrder(job[s]) /\ PassedToOthers(job[s])
      BY <1>1 DEF RulesInv
    <3>2. InOrder(job[s])'
      BY <2>1, <3>1 DEF InOrder
    <3>3. PassedToOthers(job[s])'
      BY <2>1, <3>1 DEF PassedToOthers
    <3>. QED
      BY <3>2, <3>3
  <2>. QED
    BY <2>2, <2>3, <2>4 DEF RulesInv
<1>. QED
  BY <1>1, AskInv, SessionInv, ResetInv DEF Next

LEMMA RulesInvariance == Spec => []RulesInv
BY InitRulesInv, NextRulesInv, PTL DEF Spec

-----------------------------------------------------------------------------
(* How often something is in a list.                                       *)

Times(q, x) == Cardinality({i \in DOMAIN q : q[i] = x})

LEMMA TimesType ==
    ASSUME NEW S, NEW q \in Seq(S), NEW x
    PROVE  /\ IsFiniteSet({i \in DOMAIN q : q[i] = x})
           /\ Times(q, x) \in Nat
           /\ Times(q, x) = 0 <=> \A i \in DOMAIN q : q[i] # x
<1>. DEFINE At == {i \in DOMAIN q : q[i] = x}
<1>1. Len(q) \in Nat /\ DOMAIN q = 1..Len(q)
  BY LenProperties
<1>2. IsFiniteSet(1..Len(q)) /\ At \in SUBSET (1..Len(q))
  BY <1>1, FS_Interval
<1>3. IsFiniteSet(At)
  BY <1>2, FS_Subset
<1>4. Cardinality(At) \in Nat /\ (Cardinality(At) = 0 <=> At = {})
  BY <1>3, FS_CardinalityType, FS_EmptySet
<1>. QED
  BY <1>3, <1>4 DEF Times

\* Counting goes part by part.
LEMMA TimesConcat ==
    ASSUME NEW S, NEW q \in Seq(S), NEW r \in Seq(S), NEW x
    PROVE  Times(q \o r, x) = Times(q, x) + Times(r, x)
<1>. DEFINE n == Len(q)
            A == {i \in DOMAIN q : q[i] = x}
            B == {i \in DOMAIN r : r[i] = x}
            C == {k \in (n + 1)..(n + Len(r)) : r[k - n] = x}
            shift == [i \in B |-> i + n]
<1>1. n \in Nat /\ DOMAIN q = 1..n /\ Len(r) \in Nat /\ DOMAIN r = 1..Len(r)
  BY LenProperties
<1>2. q \o r \in Seq(S) /\ DOMAIN (q \o r) = 1..(n + Len(r))
      /\ \A i \in 1..(n + Len(r)) : (q \o r)[i] = IF i <= n THEN q[i] ELSE r[i - n]
  <2>1. q \o r \in Seq(S) /\ Len(q \o r) = n + Len(r)
        /\ \A i \in 1..(n + Len(r)) : (q \o r)[i] = IF i <= n THEN q[i] ELSE r[i - n]
    BY ConcatProperties
  <2>. QED
    BY <2>1, LenProperties
<1>3. {i \in DOMAIN (q \o r) : (q \o r)[i] = x} = A \cup C
  <2>. HIDE DEF n
  <2>. QED
    BY <1>1, <1>2
<1>4. IsFiniteSet(A) /\ IsFiniteSet(B)
  BY TimesType
<1>5. shift \in Bijection(B, C)
  <2>. HIDE DEF n
  <2>1. ASSUME NEW i \in B PROVE i + n \in C
    BY <1>1, <2>1
  <2>2. ASSUME NEW k \in C PROVE k - n \in B /\ shift[k - n] = k
    BY <1>1, <2>2
  <2>3. \A i, k \in B : shift[i] = shift[k] => i = k
    BY <1>1
  <2>. HIDE DEF B, C
  <2>4. shift \in [B -> C]
    BY <2>1
  <2>5. \A k \in C : \E i \in B : shift[i] = k
    BY <2>2
  <2>. QED
    BY <2>3, <2>4, <2>5 DEF Bijection, Injection, Surjection, IsInjective
<1>6. IsFiniteSet(C) /\ Cardinality(C) = Cardinality(B)
  BY <1>4, <1>5, FS_Bijection DEF ExistsBijection
<1>7. A \cap C = {}
  BY <1>1
<1>8. Cardinality(A \cup C) = Cardinality(A) + Cardinality(C) - Cardinality({})
  <2>. HIDE DEF A, B, C
  <2>. QED
    BY <1>4, <1>6, <1>7, FS_Union
<1>9. Cardinality({}) = 0 /\ Cardinality(A) \in Nat /\ Cardinality(C) \in Nat
  BY <1>4, <1>6, FS_EmptySet, FS_CardinalityType
<1>. HIDE DEF A, B, C
<1>10. Cardinality(A \cup C) = Cardinality(A) + Cardinality(B)
  BY <1>6, <1>8, <1>9
<1>. QED
  BY <1>3, <1>10 DEF Times, A, B

LEMMA TimesOne == \A x, y : Times(<<y>>, x) = IF x = y THEN 1 ELSE 0
<1>. SUFFICES ASSUME NEW x, NEW y PROVE Times(<<y>>, x) = IF x = y THEN 1 ELSE 0
  OBVIOUS
<1>1. {i \in DOMAIN <<y>> : <<y>>[i] = x} = IF x = y THEN {1} ELSE {}
  OBVIOUS
<1>. QED
  BY <1>1, FS_Singleton, FS_EmptySet DEF Times

LEMMA TimesNone == \A x : Times(<<>>, x) = 0
BY FS_EmptySet DEF Times

LEMMA TimesAppend ==
    ASSUME NEW S, NEW q \in Seq(S), NEW y \in S, NEW x
    PROVE  Times(Append(q, y), x) = Times(q, x) + IF x = y THEN 1 ELSE 0
<1>1. Append(q, y) = q \o <<y>> /\ <<y>> \in Seq(S)
  BY AppendIsConcat
<1>2. PICK one : one = <<y>>
  OBVIOUS
<1>3. Times(q \o one, x) = Times(q, x) + Times(one, x)
  BY <1>1, <1>2, TimesConcat
<1>. QED
  BY <1>1, <1>2, <1>3, TimesOne

LEMMA TimesTail ==
    ASSUME NEW S, NEW q \in Seq(S), q # <<>>, NEW x
    PROVE  Times(q, x) = (IF x = Head(q) THEN 1 ELSE 0) + Times(Tail(q), x)
<1>1. Head(q) \in S /\ Tail(q) \in Seq(S) /\ Head(q) = q[1]
  BY HeadTailProperties
<1>2. 1 \in 1..Len(q) /\ Len(q) \in 1..Len(q)
  BY EmptySeq
<1>3. SubSeq(q, 1, Len(q)) = <<q[1]>> \o SubSeq(q, 2, Len(q))
  BY <1>2, SubSeqRecursiveFirst
<1>4. <<Head(q)>> \in Seq(S) /\ q = <<Head(q)>> \o Tail(q)
  BY <1>1, <1>3, SubSeqFull, TailIsSubSeq
<1>5. PICK one, rest : one = <<Head(q)>> /\ rest = Tail(q)
  OBVIOUS
<1>6. Times(one \o rest, x) = Times(one, x) + Times(rest, x)
  BY <1>1, <1>4, <1>5, TimesConcat
<1>. QED
  BY <1>4, <1>5, <1>6, TimesOne

-----------------------------------------------------------------------------
(* What is recorded of a query.                                            *)

\* Number of events of a query that has this answer.
Recorded(answer) == CASE answer = "empty" -> 0 [] answer = "syntax" -> 2 [] OTHER -> 1

\* A plan ends with the answer, and it runs the statement once, if at all, and
\* then what it answers is not known before.
ToTheAnswer(todo, answer) ==
    /\ todo # <<>> /\ todo[Len(todo)] = "answer" /\ Times(todo, "answer") = 1
    /\ Times(todo, "run") = 0 \/ (Times(todo, "run") = 1 /\ answer = "done")

\* What is recorded of a query, and what is left to record, is what its answer
\* needs: nothing while it looks at rules.
Owes(j) ==
    /\ Looking(j) => Events(j.id) = 0 /\ j.id \notin Range(unsupported)
    /\ ~Looking(j) =>
          /\ Events(j.id) + Times(j.todo, "event") = Recorded(j.answer)
          /\ (j.id \in Range(unsupported) \/ Times(j.todo, "unsupported") # 0)
                <=> j.answer \in {"unsupported", "syntax"}

\* A query that was under way when the lists were cleared is of those carried,
\* any other owes its events; neither has its answer.
OnRecord(j) ==
    j.todo # <<>> =>
        /\ ~Looking(j) => ToTheAnswer(j.todo, j.answer)
        /\ IF j.fresh THEN Owes(j) ELSE j.id \in carried
        /\ \A t \in told : t.id # j.id

RecordsInv == AnsweredIsRecorded /\ \A s \in Sessions : OnRecord(job[s])

LEMMA RecordedType ==
    \A answer : Recorded(answer) \in Nat
        /\ (answer \in {"rule", "done", "error", "unsupported"} => Recorded(answer) = 1)
        /\ Recorded("empty") = 0 /\ Recorded("syntax") = 2
BY DEF Recorded

LEMMA EventsAreTimes == \A id : Events(id) = Times(queries, id)
BY DEF Events, Times

LEMMA InRange == \A q, x : x \in Range(q) <=> \E i \in DOMAIN q : q[i] = x
BY DEF Range

\* A plan and its counts.
PlanCounts(p, event, unsup, run) ==
    /\ p \in Seq(Found) /\ p # <<>> /\ p[Len(p)] = "answer"
    /\ Times(p, "answer") = 1 /\ Times(p, "event") = event
    /\ Times(p, "unsupported") = unsup /\ Times(p, "run") = run

LEMMA PartCounts ==
    /\ <<"answer">> \in Seq(Found) /\ PlanCounts(<<"answer">>, 0, 0, 0)
    /\ Logged \in Seq(Found) /\ RecordedUnsupported \in Seq(Found)
    /\ Times(Logged, "answer") = 0 /\ Times(Logged, "event") = 1
    /\ Times(Logged, "unsupported") = 0 /\ Times(Logged, "run") = 0
    /\ Times(RecordedUnsupported, "answer") = 0 /\ Times(RecordedUnsupported, "event") = 1
    /\ Times(RecordedUnsupported, "unsupported") = 1 /\ Times(RecordedUnsupported, "run") = 0
<1>1. PlanCounts(<<"answer">>, 0, 0, 0)
  BY TimesOne DEF PlanCounts, Found, Deeds
<1>2. /\ <<"count">> \in Seq(Found) /\ <<"event">> \in Seq(Found)
      /\ <<"countUnsupported">> \in Seq(Found) /\ <<"unsupported">> \in Seq(Found)
      /\ <<"countUnsupported", "unsupported">> \in Seq(Found)
      /\ Logged = <<"count">> \o <<"event">>
      /\ <<"countUnsupported", "unsupported">> = <<"countUnsupported">> \o <<"unsupported">>
  BY DEF Logged, Found, Deeds
<1>3. \A x : Times(Logged, x) = Times(<<"count">>, x) + Times(<<"event">>, x)
  <2>1. PICK b, a : b = <<"count">> /\ a = <<"event">>
    OBVIOUS
  <2>2. b \in Seq(Found) /\ a \in Seq(Found)
    BY <1>2, <2>1
  <2>3. \A x : Times(b \o a, x) = Times(b, x) + Times(a, x)
    BY <2>2, TimesConcat
  <2>. QED
    BY <1>2, <2>1, <2>3
<1>4. Logged \in Seq(Found) /\ RecordedUnsupported \in Seq(Found)
  BY <1>2, PlansFound DEF Logged, Found, Deeds
<1>5. \A x : Times(<<"countUnsupported", "unsupported">>, x)
                = Times(<<"countUnsupported">>, x) + Times(<<"unsupported">>, x)
  <2>1. PICK b, a : b = <<"countUnsupported">> /\ a = <<"unsupported">>
    OBVIOUS
  <2>2. b \in Seq(Found) /\ a \in Seq(Found)
    BY <1>2, <2>1
  <2>3. \A x : Times(b \o a, x) = Times(b, x) + Times(a, x)
    BY <2>2, TimesConcat
  <2>. QED
    BY <1>2, <2>1, <2>3
<1>6. \A x : Times(RecordedUnsupported, x)
                = Times(<<"countUnsupported", "unsupported">>, x) + Times(Logged, x)
  <2>1. PICK b : b = <<"countUnsupported", "unsupported">>
    OBVIOUS
  <2>2. b \in Seq(Found)
    BY <1>2, <2>1
  <2>3. \A x : Times(b \o Logged, x) = Times(b, x) + Times(Logged, x)
    BY <1>4, <2>2, TimesConcat
  <2>. QED
    BY <2>1, <2>3 DEF RecordedUnsupported
<1>7. <<"answer">> \in Seq(Found)
  BY <1>1 DEF PlanCounts
<1>8. /\ Times(Logged, "answer") = 0 /\ Times(Logged, "event") = 1
      /\ Times(Logged, "unsupported") = 0 /\ Times(Logged, "run") = 0
  <2>1. \A x : Times(<<"count">>, x) = (IF x = "count" THEN 1 ELSE 0)
               /\ Times(<<"event">>, x) = (IF x = "event" THEN 1 ELSE 0)
    BY TimesOne
  <2>2. \A x : Times(Logged, x) = (IF x = "count" THEN 1 ELSE 0) + (IF x = "event" THEN 1 ELSE 0)
    BY <1>3, <2>1
  <2>. QED
    BY <2>2
<1>9. /\ Times(RecordedUnsupported, "answer") = 0 /\ Times(RecordedUnsupported, "event") = 1
      /\ Times(RecordedUnsupported, "unsupported") = 1 /\ Times(RecordedUnsupported, "run") = 0
  <2>1. \A x : /\ Times(<<"countUnsupported">>, x) = (IF x = "countUnsupported" THEN 1 ELSE 0)
               /\ Times(<<"unsupported">>, x) = (IF x = "unsupported" THEN 1 ELSE 0)
    BY TimesOne
  <2>2. \A x : Times(<<"countUnsupported", "unsupported">>, x) =
                  (IF x = "countUnsupported" THEN 1 ELSE 0)
                  + (IF x = "unsupported" THEN 1 ELSE 0)
    BY <1>5, <2>1
  <2>3. PICK pair : pair = <<"countUnsupported", "unsupported">>
    OBVIOUS
  <2>4. /\ Times(pair, "answer") = 0 /\ Times(pair, "event") = 0
        /\ Times(pair, "unsupported") = 1 /\ Times(pair, "run") = 0
    BY <2>2, <2>3
  <2>5. \A x : Times(RecordedUnsupported, x) = Times(pair, x) + Times(Logged, x)
    BY <1>6, <2>3
  <2>. QED
    BY <1>8, <2>4, <2>5
<1>. QED
  BY <1>1, <1>4, <1>7, <1>8, <1>9

\* What comes before a plan adds its own counts.
LEMMA CountsBefore ==
    ASSUME NEW b \in Seq(Found), NEW p, NEW e \in Nat, NEW u \in Nat, NEW r \in Nat,
           PlanCounts(p, e, u, r), Times(b, "answer") = 0
    PROVE  PlanCounts(b \o p, Times(b, "event") + e, Times(b, "unsupported") + u,
                      Times(b, "run") + r)
<1>1. p \in Seq(Found) /\ p # <<>>
  BY DEF PlanCounts
<1>2. b \o p \in Seq(Found) /\ Len(b \o p) = Len(b) + Len(p)
      /\ (b \o p)[Len(b) + Len(p)] = p[Len(p)] /\ b \o p # <<>>
  <2>1. Len(b) \in Nat /\ Len(p) \in Nat \ {0}
    BY <1>1, EmptySeq, LenProperties
  <2>2. b \o p \in Seq(Found) /\ Len(b \o p) = Len(b) + Len(p)
        /\ \A i \in 1 .. Len(b) + Len(p) : (b \o p)[i] =
                     IF i <= Len(b) THEN b[i] ELSE p[i - Len(b)]
    BY <1>1, ConcatProperties
  <2>3. Len(b) + Len(p) \in 1..Len(b) + Len(p) /\ ~(Len(b) + Len(p) <= Len(b))
        /\ (Len(b) + Len(p)) - Len(b) = Len(p)
    BY <2>1
  <2>4. (b \o p)[Len(b) + Len(p)] = p[Len(p)]
    BY <2>2, <2>3
  <2>5. b \o p # <<>>
    BY <2>1, <2>2, EmptySeq
  <2>. QED
    BY <2>2, <2>4, <2>5
<1>3. \A x : Times(b \o p, x) = Times(b, x) + Times(p, x)
  BY <1>1, TimesConcat
<1>. QED
  BY <1>2, <1>3 DEF PlanCounts

LEMMA PlanIsComplete ==
    \A route : LET answer == Answer(route) IN
        PlanCounts(Plan(route), Recorded(answer), IF answer = "unsupported" THEN 1 ELSE 0,
                   IF route \in {"ddl", "sqlite"} THEN 1 ELSE 0)
<1>. SUFFICES ASSUME NEW route
              PROVE  PlanCounts(Plan(route), Recorded(Answer(route)),
                                IF Answer(route) = "unsupported" THEN 1 ELSE 0,
                                IF route \in {"ddl", "sqlite"} THEN 1 ELSE 0)
  BY Zenon
<1>. DEFINE timed == <<"time", "answer">>
<1>1. <<"time">> \in Seq(Found) /\ <<"run">> \in Seq(Found)
      /\ timed = <<"time">> \o <<"answer">>
      /\ <<"run", "time", "answer">> = <<"run">> \o timed
  BY DEF Found, Deeds
<1>2. /\ Times(<<"time">>, "answer") = 0 /\ Times(<<"time">>, "event") = 0
      /\ Times(<<"time">>, "unsupported") = 0 /\ Times(<<"time">>, "run") = 0
      /\ Times(<<"run">>, "answer") = 0 /\ Times(<<"run">>, "event") = 0
      /\ Times(<<"run">>, "unsupported") = 0 /\ Times(<<"run">>, "run") = 1
  BY TimesOne
<1>3. PlanCounts(timed, 0, 0, 0)
  <2>1. PICK b, p : b = <<"time">> /\ p = <<"answer">>
    OBVIOUS
  <2>2. b \in Seq(Found) /\ PlanCounts(p, 0, 0, 0) /\ timed = b \o p
        /\ Times(b, "answer") = 0 /\ Times(b, "event") = 0
        /\ Times(b, "unsupported") = 0 /\ Times(b, "run") = 0
    BY <1>1, <1>2, <2>1, PartCounts
  <2>. HIDE DEF timed
  <2>. QED
    BY <2>2, CountsBefore
<1>4. PlanCounts(<<"run", "time", "answer">>, 0, 0, 1)
  <2>. HIDE DEF timed
  <2>1. PICK b : b = <<"run">>
    OBVIOUS
  <2>2. b \in Seq(Found) /\ <<"run", "time", "answer">> = b \o timed
        /\ Times(b, "answer") = 0 /\ Times(b, "event") = 0
        /\ Times(b, "unsupported") = 0 /\ Times(b, "run") = 1
    BY <1>1, <1>2, <2>1
  <2>3. PlanCounts(b \o timed, 0, 0, 1)
    BY <1>3, <2>2, CountsBefore
  <2>. QED
    BY <2>2, <2>3
<1>5. PlanCounts(Logged \o timed, 1, 0, 0)
  <2>. HIDE DEF timed
  <2>. QED
    BY <1>3, PartCounts, CountsBefore
<1>6. PlanCounts(Logged \o <<"run", "time", "answer">>, 1, 0, 1)
  BY <1>4, PartCounts, CountsBefore
<1>7. PlanCounts(RecordedUnsupported \o timed, 1, 1, 0)
  <2>. HIDE DEF timed
  <2>. QED
    BY <1>3, PartCounts, CountsBefore
<1>8. PlanCounts(<<"run">> \o (Logged \o timed), 1, 0, 1)
  <2>. HIDE DEF timed
  <2>. QED
    BY <1>1, <1>2, <1>5, CountsBefore
<1>9. (<<"run">> \o Logged) \o timed = <<"run">> \o (Logged \o timed)
  <2>1. timed \in Seq(Found)
    BY <1>3 DEF PlanCounts
  <2>. HIDE DEF timed
  <2>. QED
    BY <1>1, <2>1, PartCounts, ConcatAssociative
<1>. HIDE DEF timed
<1>10. PlanCounts(Plan("ddl"), 1, 0, 1)
  BY <1>8, <1>9 DEF Plan, timed
<1>11. PlanCounts(Plan("sqlite"), 1, 0, 1)
  BY <1>6 DEF Plan
<1>12. PlanCounts(Plan("unsupported"), 1, 1, 0)
  BY <1>7 DEF Plan, timed
<1>13. PlanCounts(Plan("empty"), 0, 0, 0)
  BY PartCounts DEF Plan
<1>14. route \notin {"ddl", "sqlite", "unsupported", "empty"} =>
           Plan(route) = Logged \o timed
  BY DEF Plan, timed
<1>15. /\ Answer("ddl") = "done" /\ Answer("sqlite") = "done"
       /\ Answer("unsupported") = "unsupported" /\ Answer("empty") = "empty"
       /\ route \notin {"unsupported", "empty"} => Answer(route) = "done"
  BY DEF Answer
<1>. QED
  BY <1>5, <1>10, <1>11, <1>12, <1>13, <1>14, <1>15, RecordedType

LEMMA ResponseIsComplete == \A r : PlanCounts(Response(r), 1, 0, 0)
<1>. SUFFICES ASSUME NEW r PROVE PlanCounts(Response(r), 1, 0, 0)
  OBVIOUS
<1>. DEFINE d == IF r.delay THEN <<"delay">> ELSE <<>>
            a == IF r.type = "disconnect" /\ r.after THEN <<"after">> ELSE <<>>
<1>1. PlanCounts(Plan("rules"), 1, 0, 0)
  <2>1. Answer("rules") = "done"
    BY DEF Answer
  <2>. QED
    BY <2>1, PlanIsComplete, RecordedType
<1>2. <<"delay">> \in Seq(Found) /\ <<"after">> \in Seq(Found) /\ <<>> \in Seq(Found)
  BY DEF Found, Deeds
<1>3. \A q \in {<<"delay">>, <<"after">>, <<>>} :
          /\ Times(q, "answer") = 0 /\ Times(q, "event") = 0
          /\ Times(q, "unsupported") = 0 /\ Times(q, "run") = 0
  BY TimesOne, TimesNone
<1>4. d \in {<<"delay">>, <<>>} /\ a \in {<<"after">>, <<>>}
  BY Zenon
<1>. HIDE DEF d, a
<1>5. d \in Seq(Found) /\ a \in Seq(Found) /\ Plan("rules") \in Seq(Found)
  BY <1>2, <1>4, PlansFound
<1>6. PlanCounts(a \o Plan("rules"), 1, 0, 0)
  BY <1>1, <1>3, <1>4, <1>5, CountsBefore
<1>7. PlanCounts(d \o (a \o Plan("rules")), 1, 0, 0)
  BY <1>3, <1>4, <1>5, <1>6, CountsBefore
<1>8. (d \o a) \o Plan("rules") = d \o (a \o Plan("rules"))
  BY <1>5, ConcatAssociative
<1>. QED
  BY <1>7, <1>8 DEF Response, d, a

\* A query as it is when it has found what to do.
Complete(j) ==
    /\ j.answer # "syntax"
    /\ \E run \in {0, 1} :
          /\ PlanCounts(j.todo, Recorded(j.answer),
                        IF j.answer = "unsupported" THEN 1 ELSE 0, run)
          /\ run = 1 => j.answer = "done"

LEMMA CompleteOwes ==
    ASSUME NEW j, Complete(j), Events(j.id) = 0, j.id \notin Range(unsupported)
    PROVE  ~Looking(j) /\ ToTheAnswer(j.todo, j.answer) /\ Owes(j)
<1>1. PICK run \in {0, 1} :
          /\ PlanCounts(j.todo, Recorded(j.answer),
                        IF j.answer = "unsupported" THEN 1 ELSE 0, run)
          /\ run = 1 => j.answer = "done"
  BY DEF Complete
<1>2. /\ j.todo \in Seq(Found) /\ j.todo # <<>> /\ j.todo[Len(j.todo)] = "answer"
      /\ Times(j.todo, "answer") = 1 /\ Times(j.todo, "event") = Recorded(j.answer)
      /\ Times(j.todo, "unsupported") = (IF j.answer = "unsupported" THEN 1 ELSE 0)
      /\ Times(j.todo, "run") = run
  BY <1>1 DEF PlanCounts
<1>3. ~Looking(j)
  BY <1>2, FoundSequence DEF Looking
<1>4. ToTheAnswer(j.todo, j.answer)
  BY <1>1, <1>2 DEF ToTheAnswer
<1>5. 0 + Times(j.todo, "event") = Recorded(j.answer)
  BY <1>2, RecordedType, TimesType
<1>. QED
  BY <1>2, <1>3, <1>4, <1>5 DEF Owes, Complete

LEMMA RouteCompletes ==
    ASSUME NEW k \in Jobs, NEW route
    PROVE  Complete(Planned(k, Plan(route), Answer(route)))
<1>. DEFINE j == Planned(k, Plan(route), Answer(route))
<1>1. j.todo = Plan(route) /\ j.answer = Answer(route)
  BY DEF Planned, Jobs
<1>2. Answer(route) # "syntax" /\ (route \in {"ddl", "sqlite"} => Answer(route) = "done")
  BY DEF Answer
<1>3. PlanCounts(Plan(route), Recorded(Answer(route)),
                 IF Answer(route) = "unsupported" THEN 1 ELSE 0,
                 IF route \in {"ddl", "sqlite"} THEN 1 ELSE 0)
  BY PlanIsComplete, Zenon
<1>. HIDE DEF j
<1>. QED
  BY <1>1, <1>2, <1>3 DEF Complete, j

-----------------------------------------------------------------------------
(* The steps, and what is recorded.                                        *)

\* A step of a query that goes on.
LEMMA RecordStep ==
    ASSUME RulesInv, RecordsInv, NEW s \in Sessions, NEW j,
           job' = [job EXCEPT ![s] = j],
           job[s].todo # <<>>, j.todo # <<>>, j.id = job[s].id, j.fresh = job[s].fresh,
           ~Looking(j) => ToTheAnswer(j.todo, j.answer),
           j.fresh => Owes(j)',
           UNCHANGED <<carried, told>>,
           \A id : id # job[s].id =>
               /\ Events(id)' = Events(id)
               /\ id \in Range(unsupported') <=> id \in Range(unsupported),
           Range(queries') \subseteq Range(queries) \cup {job[s].id},
           Range(unsupported') \subseteq Range(unsupported) \cup {job[s].id}
    PROVE  RecordsInv'
<1>1. \A r \in Sessions : job'[r] = IF r = s THEN j ELSE job[r]
  BY DEF RulesInv, TypeOK
<1>2. \A t \in told : t.id # job[s].id
  BY DEF RecordsInv, OnRecord
<1>3. ASSUME NEW r \in Sessions PROVE OnRecord(job[r])'
  <2>1. CASE r = s
    <3>1. ~j.fresh => j.id \in carried
      BY DEF RecordsInv, OnRecord
    <3>2. job'[r] = j
      BY <1>1, <2>1
    <3>3. Looking(job[r])' <=> Looking(j)
      BY <3>2 DEF Looking
    <3>4. j.fresh => Owes(job[r])'
      BY <3>2, <3>3 DEF Owes, Looking
    <3>. QED
      BY <1>2, <3>1, <3>2, <3>3, <3>4 DEF OnRecord, ToTheAnswer
  <2>2. CASE r # s
    <3>1. job'[r] = job[r] /\ OnRecord(job[r])
      BY <1>1, <2>2 DEF RecordsInv
    <3>2. job[r].todo # <<>> => job[r].id # job[s].id
      BY <2>2 DEF RulesInv, QueriesApart
    <3>3. job[r].todo # <<>> /\ Owes(job[r]) => Owes(job[r])'
      BY <3>1, <3>2 DEF Owes, Looking
    <3>. QED
      BY <3>1, <3>3 DEF OnRecord, Looking, ToTheAnswer
  <2>. QED
    BY <2>1, <2>2
<1>4. AnsweredIsRecorded'
  <2>1. \A t \in told' :
          /\ t.id \in Range(unsupported') <=> t.answer \in {"unsupported", "syntax"}
          /\ Events(t.id)' = CASE t.answer = "empty" -> 0 [] t.answer = "syntax" -> 2 [] OTHER -> 1
    BY <1>2 DEF RecordsInv, AnsweredIsRecorded
  <2>2. {job[r].id : r \in UnderWay} \subseteq {job'[r].id : r \in UnderWay'}
    BY <1>1 DEF UnderWay
  <2>3. job[s].id \in {job[r].id : r \in UnderWay}
    BY DEF UnderWay
  <2>4. Range(queries') \cup Range(unsupported') \subseteq
            {t.id : t \in told'} \cup {job'[r].id : r \in UnderWay'} \cup carried'
    BY <2>2, <2>3 DEF RecordsInv, AnsweredIsRecorded
  <2>. QED
    BY <2>1, <2>4 DEF AnsweredIsRecorded
<1>. QED
  BY <1>3, <1>4 DEF RecordsInv

\* The same for a step that records nothing.
LEMMA QuietRecordStep ==
    ASSUME RulesInv, RecordsInv, NEW s \in Sessions, NEW j,
           job' = [job EXCEPT ![s] = j],
           job[s].todo # <<>>, j.todo # <<>>, j.id = job[s].id, j.fresh = job[s].fresh,
           ~Looking(j) => ToTheAnswer(j.todo, j.answer),
           j.fresh => Owes(j),
           UNCHANGED <<carried, told, queries, unsupported>>
    PROVE  RecordsInv'
<1>1. \A id : Events(id)' = Events(id)
  BY DEF Events
<1>2. j.fresh => Owes(j)'
  BY <1>1 DEF Owes, Looking
<1>. QED
  BY <1>1, <1>2, RecordStep

\* A query that has done the next thing of its plan.
LEMMA DoneCounts ==
    ASSUME RulesInv, RecordsInv, NEW s \in Sessions, NEW deed, Doing(s, deed), deed # "match"
    PROVE  /\ Done(s).fresh = job[s].fresh /\ Done(s).answer = job[s].answer
           /\ ~Looking(job[s]) /\ ~Looking(Done(s))
           /\ job[s].fresh => Owes(job[s])
           /\ ToTheAnswer(job[s].todo, job[s].answer)
           /\ \A x : /\ Times(Done(s).todo, x) \in Nat
                     /\ Times(job[s].todo, x) =
                           (IF x = deed THEN 1 ELSE 0) + Times(Done(s).todo, x)
           /\ deed # "answer" => ToTheAnswer(Done(s).todo, job[s].answer)
           /\ deed = "answer" => Len(job[s].todo) = 1 /\ Done(s).todo = <<>>
<1>1. /\ job[s] \in Jobs /\ job[s].todo \in Seq(Found) /\ job[s].todo # <<>>
      /\ Done(s).todo = Tail(job[s].todo) /\ Done(s).todo \in Seq(Found)
  BY DoneQuery
<1>2. PICK k \in Jobs : k = job[s]
  BY <1>1
<1>3. Done(s).fresh = job[s].fresh /\ Done(s).answer = job[s].answer
  BY <1>2 DEF Done, Jobs
<1>4. ~Looking(job[s]) /\ ~Looking(Done(s))
  BY <1>1, FoundSequence DEF Looking
<1>5. ToTheAnswer(job[s].todo, job[s].answer) /\ (job[s].fresh => Owes(job[s]))
  BY <1>1, <1>4 DEF RecordsInv, OnRecord
<1>6. \A x : /\ Times(Done(s).todo, x) \in Nat
             /\ Times(job[s].todo, x) = (IF x = deed THEN 1 ELSE 0) + Times(Done(s).todo, x)
  <2>1. PICK q \in Seq(Found), r \in Seq(Found) :
          q = job[s].todo /\ r = Done(s).todo /\ q # <<>> /\ r = Tail(q)
    BY <1>1
  <2>2. Head(q) = deed
    BY <2>1 DEF Doing
  <2>3. ASSUME NEW x
        PROVE  Times(r, x) \in Nat /\ Times(q, x) = (IF x = deed THEN 1 ELSE 0) + Times(r, x)
    <3>1. Times(r, x) \in Nat
      BY TimesType
    <3>2. Times(q, x) = (IF x = Head(q) THEN 1 ELSE 0) + Times(Tail(q), x)
      BY <2>1, TimesTail
    <3>. QED
      BY <2>1, <2>2, <3>1, <3>2
  <2>. QED
    BY <2>1, <2>3
<1>. DEFINE q == job[s].todo
            r == Done(s).todo
<1>7. /\ Len(q) \in Nat \ {0} /\ Len(r) = Len(q) - 1
      /\ \A i \in 1..Len(r) : r[i] = q[i + 1]
      /\ DOMAIN r = 1..Len(r)
  BY <1>1, EmptySeq, HeadTailProperties, LenProperties
<1>8. Len(q) # 1 => r[Len(r)] = "answer" /\ r # <<>> /\ Len(r) \in DOMAIN r
  <2>. SUFFICES ASSUME Len(q) # 1 PROVE r[Len(r)] = "answer" /\ r # <<>> /\ Len(r) \in DOMAIN r
    OBVIOUS
  <2>1. Len(r) \in 1..Len(r) /\ Len(r) + 1 = Len(q)
    <3>1. PICK n \in Nat \ {0} : n = Len(q)
      BY <1>7
    <3>2. Len(r) = n - 1 /\ n # 1
      BY <1>7, <3>1
    <3>3. n - 1 \in 1..(n - 1) /\ (n - 1) + 1 = n
      BY <3>2
    <3>. QED
      BY <3>1, <3>2, <3>3
  <2>2. q[Len(q)] = "answer"
    BY <1>5 DEF ToTheAnswer
  <2>3. r # <<>>
    BY <2>1, EmptySeq
  <2>. QED
    BY <1>7, <2>1, <2>2, <2>3
<1>9. Len(q) = 1 => r = <<>> /\ deed = "answer"
  <2>. SUFFICES ASSUME Len(q) = 1 PROVE r = <<>> /\ deed = "answer"
    OBVIOUS
  <2>1. Len(r) = 0
    BY <1>7
  <2>2. r = <<>>
    BY <1>1, <2>1, EmptySeq
  <2>3. q[1] = "answer" /\ q[1] = deed
    BY <1>1, <1>5 DEF ToTheAnswer, Doing
  <2>. QED
    BY <2>2, <2>3
<1>10. deed = "answer" => Len(q) = 1
  <2>. SUFFICES ASSUME deed = "answer", Len(q) # 1 PROVE FALSE
    OBVIOUS
  <2>1. Times(r, "answer") = 0
    BY <1>5, <1>6 DEF ToTheAnswer
  <2>2. \A i \in DOMAIN r : r[i] # "answer"
    BY <1>1, <2>1, TimesType
  <2>. QED
    BY <1>8, <2>2
<1>11. ASSUME deed # "answer" PROVE ToTheAnswer(r, job[s].answer)
  <2>1. r # <<>> /\ r[Len(r)] = "answer"
    BY <1>8, <1>9, <1>11
  <2>2. Times(r, "answer") = 1
    BY <1>5, <1>6, <1>11 DEF ToTheAnswer
  <2>3. Times(r, "run") = 0 \/ (Times(r, "run") = 1 /\ job[s].answer = "done")
    BY <1>5, <1>6 DEF ToTheAnswer
  <2>. QED
    BY <2>1, <2>2, <2>3 DEF ToTheAnswer
<1>. QED
  BY <1>3, <1>4, <1>5, <1>6, <1>9, <1>10, <1>11

\* A query that looks at a rule, or has none to look at, goes on looking or
\* finds what to do.
LEMMA MatchedQuery ==
    ASSUME RulesInv, NEW s \in Sessions, MatchRule(s) \/ NoRules(s)
    PROVE  \E j : /\ job' = [job EXCEPT ![s] = j]
                  /\ j.id = job[s].id /\ j.fresh = job[s].fresh
                  /\ Looking(j) \/ Complete(j)
<1>1. Doing(s, "match") /\ job[s] \in Jobs /\ Looking(job[s])
  BY LookingQuery DEF MatchRule, NoRules
<1>2. PICK k \in Jobs : k = job[s]
  BY <1>1
<1>3. ASSUME NEW passed, PassesRule(s, passed)
      PROVE  \E j : /\ job' = [job EXCEPT ![s] = j]
                    /\ j.id = job[s].id /\ j.fresh = job[s].fresh
                    /\ Looking(j) \/ Complete(j)
  <2>. DEFINE p == [k EXCEPT !.passed = passed]
              i == [p EXCEPT !.at = @ + 1]
              route == Route[p.text]
              f == Planned(p, Plan(route), Answer(route))
              f0 == Planned(k, Plan(route), Answer(route))
  <2>1. job' = [job EXCEPT ![s] = IF p.at < Len(rules) THEN i ELSE f]
    BY <1>2, <1>3 DEF PassesRule
  <2>2. i.id = k.id /\ i.fresh = k.fresh /\ i.todo = k.todo
    BY DEF Jobs
  <2>3. f.id = k.id /\ f.fresh = k.fresh /\ f.todo = f0.todo /\ f.answer = f0.answer
    BY DEF Jobs, Planned
  <2>. HIDE DEF route, i, p
  <2>4. Complete(f0)
    BY RouteCompletes
  <2>5. Complete(f)
    <3>. HIDE DEF f, f0
    <3>. QED
      BY <2>3, <2>4 DEF Complete
  <2>6. Looking(i)
    BY <1>1, <1>2, <2>2 DEF Looking
  <2>. HIDE DEF f, f0
  <2>7. CASE p.at < Len(rules)
    BY <1>2, <2>1, <2>2, <2>6, <2>7
  <2>8. CASE ~(p.at < Len(rules))
    BY <1>2, <2>1, <2>3, <2>5, <2>8
  <2>. QED
    BY <2>7, <2>8
<1>4. ASSUME TakesRule(s)
      PROVE  \E j : /\ job' = [job EXCEPT ![s] = j]
                    /\ j.id = job[s].id /\ j.fresh = job[s].fresh
                    /\ Looking(j) \/ Complete(j)
  <2>. DEFINE todo == Response(rules[k.at])
              j == Planned(k, todo, "rule")
  <2>1. job' = [job EXCEPT ![s] = j]
    BY <1>2, <1>4 DEF TakesRule
  <2>2. PlanCounts(todo, 1, 0, 0)
    BY ResponseIsComplete
  <2>. HIDE DEF todo
  <2>3. j.id = k.id /\ j.fresh = k.fresh /\ j.todo = todo /\ j.answer = "rule"
    BY DEF Planned, Jobs
  <2>. HIDE DEF j
  <2>4. Complete(j)
    BY <2>2, <2>3, RecordedType DEF Complete
  <2>. QED
    BY <1>2, <2>1, <2>3, <2>4
<1>5. CASE MatchRule(s)
  BY <1>3, <1>4, <1>5 DEF MatchRule
<1>6. CASE NoRules(s)
  <2>. DEFINE route == Route[k.text]
              j == Planned(k, Plan(route), Answer(route))
  <2>1. job' = [job EXCEPT ![s] = j]
    BY <1>2, <1>6 DEF NoRules
  <2>. HIDE DEF route
  <2>2. Complete(j) /\ j.id = k.id /\ j.fresh = k.fresh
    BY RouteCompletes DEF Planned, Jobs
  <2>. HIDE DEF j
  <2>. QED
    BY <1>2, <2>1, <2>2
<1>. QED
  BY <1>5, <1>6

LEMMA MatchRecords ==
    ASSUME RulesInv, RecordsInv, NEW s \in Sessions, MatchRule(s) \/ NoRules(s)
    PROVE  RecordsInv'
<1>1. PICK j : /\ job' = [job EXCEPT ![s] = j]
               /\ j.id = job[s].id /\ j.fresh = job[s].fresh
               /\ Looking(j) \/ Complete(j)
  BY MatchedQuery
<1>2. /\ UNCHANGED <<carried, told, queries, unsupported>>
      /\ Looking(job[s]) /\ job[s].todo # <<>>
  BY LookingQuery DEF MatchRule, NoRules, Rest, kept
<1>3. job[s].fresh => Events(job[s].id) = 0 /\ job[s].id \notin Range(unsupported)
  BY <1>2 DEF RecordsInv, OnRecord, Owes
<1>4. CASE Looking(j)
  <2>1. j.todo # <<>> /\ (j.fresh => Owes(j))
    BY <1>1, <1>3, <1>4 DEF Looking, Owes
  <2>. QED
    BY <1>1, <1>2, <1>4, <2>1, QuietRecordStep
<1>5. CASE Complete(j)
  <2>1. j.todo # <<>> /\ ToTheAnswer(j.todo, j.answer)
    BY <1>5 DEF Complete, PlanCounts, ToTheAnswer
  <2>2. j.fresh => Owes(j)
    BY <1>1, <1>3, <1>5, CompleteOwes
  <2>. QED
    BY <1>1, <1>2, <2>1, <2>2, QuietRecordStep
<1>. QED
  BY <1>1, <1>4, <1>5

\* A step that records nothing of its query.
LEMMA DoneRecords ==
    ASSUME RulesInv, RecordsInv, NEW s \in Sessions, NEW deed, Doing(s, deed),
           deed \in {"delay", "after", "run", "count", "countUnsupported", "time"},
           NEW answer, answer = job[s].answer \/ (deed = "run" /\ answer = "error"),
           NEW j, j.todo = Done(s).todo, j.id = job[s].id, j.fresh = job[s].fresh,
           j.answer = answer,
           job' = [job EXCEPT ![s] = j],
           UNCHANGED <<carried, told, queries, unsupported>>
    PROVE  RecordsInv'
<1>1. /\ ~Looking(job[s]) /\ ~Looking(Done(s))
      /\ job[s].fresh => Owes(job[s])
      /\ ToTheAnswer(job[s].todo, job[s].answer)
      /\ \A x : /\ Times(Done(s).todo, x) \in Nat
                /\ Times(job[s].todo, x) =
                      (IF x = deed THEN 1 ELSE 0) + Times(Done(s).todo, x)
      /\ ToTheAnswer(Done(s).todo, job[s].answer)
  BY DoneCounts
<1>2. ~Looking(j) /\ job[s].todo # <<>> /\ j.todo # <<>>
  BY <1>1 DEF Looking, ToTheAnswer
<1>3. deed = "run" => job[s].answer = "done" /\ Times(Done(s).todo, "run") = 0
  BY <1>1 DEF ToTheAnswer
<1>4. ToTheAnswer(j.todo, j.answer)
  BY <1>1, <1>3 DEF ToTheAnswer
<1>5. Recorded(j.answer) = Recorded(job[s].answer)
      /\ (j.answer \in {"unsupported", "syntax"} <=> job[s].answer \in {"unsupported", "syntax"})
  BY <1>3, RecordedType
<1>6. Times(j.todo, "event") = Times(job[s].todo, "event")
      /\ Times(j.todo, "unsupported") = Times(job[s].todo, "unsupported")
  BY <1>1
<1>7. j.fresh => Owes(j)
  BY <1>1, <1>2, <1>5, <1>6 DEF Owes
<1>. QED
  BY <1>2, <1>4, <1>7, QuietRecordStep

\* What is left to do after a syntax error: what it owes is put before the answer.
LEMMA SyntaxErrorPlan ==
    ASSUME NEW q \in Seq(Found), ToTheAnswer(q, "done"), Times(q, "run") = 0
    PROVE  PlanCounts(AfterSyntaxError(q), Times(q, "event") + 1, Times(q, "unsupported") + 1, 0)
<1>. DEFINE b == BeforeAnswer(q)
<1>1. PICK a : a = <<"answer">>
  OBVIOUS
<1>2. a \in Seq(Found) /\ PlanCounts(a, 0, 0, 0)
  BY <1>1, PartCounts
<1>3. b \in Seq(Found) /\ q = b \o a
  <2>1. Len(q) \in 1..Len(q) /\ 1 \in 1..Len(q) /\ q[Len(q)] = "answer" /\ q \in Seq(Found)
    BY EmptySeq DEF ToTheAnswer
  <2>2. SubSeq(q, 1, Len(q)) = SubSeq(q, 1, Len(q) - 1) \o <<q[Len(q)]>>
    BY <2>1, SubSeqRecursiveSecond
  <2>3. SubSeq(q, 1, Len(q)) = q
    BY <2>1, SubSeqFull
  <2>4. b \in Seq(Found)
    <3>1. \A i \in 1..(Len(q) - 1) : q[i] \in Found
      BY <2>1
    <3>. QED
      BY <2>1, <3>1, SubSeqProperties DEF BeforeAnswer
  <2>. QED
    BY <1>1, <2>1, <2>2, <2>3, <2>4 DEF BeforeAnswer
<1>. HIDE DEF b
<1>4. \A x : Times(q, x) = Times(b, x) + Times(a, x)
  BY <1>2, <1>3, TimesConcat
<1>5. Times(b, "answer") = 0 /\ Times(b, "run") = 0
      /\ Times(b, "event") = Times(q, "event") /\ Times(b, "unsupported") = Times(q, "unsupported")
      /\ Times(q, "event") \in Nat /\ Times(q, "unsupported") \in Nat
  <2>1. /\ Times(b, "answer") \in Nat /\ Times(b, "run") \in Nat
        /\ Times(b, "event") \in Nat /\ Times(b, "unsupported") \in Nat
    BY <1>3, TimesType
  <2>2. Times(q, "answer") = 1
    BY DEF ToTheAnswer
  <2>3. Times(a, "answer") = 1 /\ Times(a, "run") = 0 /\ Times(a, "event") = 0
        /\ Times(a, "unsupported") = 0
    BY <1>1, TimesOne
  <2>. QED
    BY <1>4, <2>1, <2>2, <2>3
<1>6. PICK p : p = RecordedUnsupported \o a
  OBVIOUS
<1>7. PlanCounts(p, 1, 1, 0)
  BY <1>2, <1>6, PartCounts, CountsBefore
<1>8. PICK e, u \in Nat : e = Times(q, "event") /\ u = Times(q, "unsupported")
  BY <1>5
<1>9. PlanCounts(b \o p, e + 1, u + 1, 0)
  BY <1>3, <1>5, <1>7, <1>8, CountsBefore
<1>10. AfterSyntaxError(q) = b \o p
  <2>1. (b \o RecordedUnsupported) \o a = b \o (RecordedUnsupported \o a)
    <3>1. RecordedUnsupported \in Seq(Found)
      BY PartCounts
    <3>2. PICK r \in Seq(Found) : r = RecordedUnsupported
      BY <3>1
    <3>3. (b \o r) \o a = b \o (r \o a)
      BY <1>2, <1>3, ConcatAssociative
    <3>. QED
      BY <3>2, <3>3
  <2>. QED
    BY <1>1, <1>6, <2>1 DEF AfterSyntaxError, b
<1>. QED
  BY <1>8, <1>9, <1>10

\* A syntax error.
LEMMA SyntaxErrorRecords ==
    ASSUME RulesInv, RecordsInv, NEW s \in Sessions, Doing(s, "run"),
           job' = [job EXCEPT ![s] = [Done(s) EXCEPT !.answer = "syntax",
                                                     !.todo = AfterSyntaxError(@)]],
           UNCHANGED <<carried, told, queries, unsupported>>
    PROVE  RecordsInv'
<1>1. /\ Done(s).fresh = job[s].fresh
      /\ ~Looking(job[s])
      /\ job[s].fresh => Owes(job[s])
      /\ ToTheAnswer(job[s].todo, job[s].answer)
      /\ \A x : /\ Times(Done(s).todo, x) \in Nat
                /\ Times(job[s].todo, x) =
                      (IF x = "run" THEN 1 ELSE 0) + Times(Done(s).todo, x)
      /\ ToTheAnswer(Done(s).todo, job[s].answer)
  BY DoneCounts
<1>2. /\ Done(s) \in Jobs /\ Done(s).todo \in Seq(Found) /\ Done(s).id = job[s].id
      /\ job[s].todo # <<>>
  BY DoneQuery
<1>3. PICK k \in Jobs : k = Done(s)
  BY <1>2
<1>. DEFINE q == k.todo
            j == [k EXCEPT !.answer = "syntax", !.todo = AfterSyntaxError(@)]
<1>4. /\ job' = [job EXCEPT ![s] = j] /\ j.todo = AfterSyntaxError(q)
      /\ j.answer = "syntax" /\ j.id = job[s].id /\ j.fresh = job[s].fresh
  BY <1>1, <1>2, <1>3 DEF Jobs
<1>5. ToTheAnswer(q, "done") /\ Times(q, "run") = 0 /\ q \in Seq(Found)
      /\ Times(q, "event") \in Nat /\ Times(q, "unsupported") \in Nat
  BY <1>1, <1>2, <1>3 DEF ToTheAnswer
<1>6. PlanCounts(AfterSyntaxError(q), Times(q, "event") + 1, Times(q, "unsupported") + 1, 0)
  BY <1>5, SyntaxErrorPlan
<1>. HIDE DEF q
<1>. HIDE DEF j
<1>7. ToTheAnswer(j.todo, j.answer)
  BY <1>4, <1>6 DEF PlanCounts, ToTheAnswer
<1>8. ~Looking(j) /\ j.todo # <<>>
  BY <1>4, <1>6, FoundSequence DEF PlanCounts, Looking
<1>9. ASSUME j.fresh PROVE Owes(j)
  <2>1. Owes(job[s]) /\ job[s].answer = "done"
    BY <1>1, <1>4, <1>9 DEF ToTheAnswer
  <2>2. Events(job[s].id) + Times(q, "event") = 1
    BY <1>1, <1>3, <2>1, RecordedType DEF Owes, q
  <2>3. Times(j.todo, "event") = Times(q, "event") + 1
        /\ Times(j.todo, "unsupported") = Times(q, "unsupported") + 1
    BY <1>4, <1>6 DEF PlanCounts
  <2>4. Events(job[s].id) \in Nat
    BY EventsAreTimes, TimesType DEF RulesInv, TypeOK
  <2>. QED
    BY <1>4, <1>5, <1>8, <2>2, <2>3, <2>4, RecordedType DEF Owes
<1>. QED
  BY <1>2, <1>4, <1>7, <1>8, <1>9, QuietRecordStep

LEMMA AppendedRange ==
    ASSUME NEW S, NEW q \in Seq(S), NEW y \in S
    PROVE  Range(Append(q, y)) = Range(q) \cup {y}
<1>1. /\ Len(Append(q, y)) = Len(q) + 1 /\ Len(q) \in Nat /\ DOMAIN q = 1..Len(q)
      /\ DOMAIN Append(q, y) = 1..(Len(q) + 1)
      /\ \A i \in 1..Len(q) : Append(q, y)[i] = q[i]
      /\ Append(q, y)[Len(q) + 1] = y
  BY AppendProperties, LenProperties
<1>2. 1..(Len(q) + 1) = 1..Len(q) \cup {Len(q) + 1}
  BY <1>1
<1>. QED
  BY <1>1, <1>2 DEF Range

\* A query's event, or its place in the list of unsupported queries.
LEMMA EventRecords ==
    ASSUME RulesInv, RecordsInv, NEW s \in Sessions, Event(s) \/ Unsupported(s)
    PROVE  RecordsInv'
<1>. DEFINE did == IF Event(s) THEN "event" ELSE "unsupported"
<1>0. PICK id, j, deed : id = job[s].id /\ j = Done(s) /\ deed = did
  OBVIOUS
<1>1. /\ Doing(s, deed) /\ job' = [job EXCEPT ![s] = j]
      /\ queries' = (IF deed = "event" THEN Append(queries, id) ELSE queries)
      /\ unsupported' = (IF deed = "event" THEN unsupported ELSE Append(unsupported, id))
      /\ UNCHANGED <<carried, told>>
      /\ deed \in {"event", "unsupported"}
  BY <1>0 DEF Event, Unsupported, Next1, Rest
<1>. HIDE DEF did
<1>2. /\ job[s].todo # <<>> /\ id \in 1..asked /\ j.id = id
  BY <1>0, <1>1, DoneQuery
<1>3. /\ j.fresh = job[s].fresh /\ j.answer = job[s].answer
      /\ ~Looking(job[s]) /\ ~Looking(j)
      /\ job[s].fresh => Owes(job[s])
      /\ \A x : /\ Times(j.todo, x) \in Nat
                /\ Times(job[s].todo, x) =
                      (IF x = deed THEN 1 ELSE 0) + Times(j.todo, x)
      /\ ToTheAnswer(j.todo, j.answer)
  <2>1. Doing(s, deed) /\ deed # "match" /\ deed # "answer"
    BY <1>1
  <2>2. /\ Done(s).fresh = job[s].fresh /\ Done(s).answer = job[s].answer
        /\ ~Looking(job[s]) /\ ~Looking(Done(s))
        /\ job[s].fresh => Owes(job[s])
    BY <2>1, DoneCounts
  <2>3. \A x : /\ Times(Done(s).todo, x) \in Nat
               /\ Times(job[s].todo, x) =
                     (IF x = deed THEN 1 ELSE 0) + Times(Done(s).todo, x)
    BY <2>1, DoneCounts
  <2>4. ToTheAnswer(Done(s).todo, job[s].answer)
    BY <2>1, DoneCounts
  <2>5. j = Done(s)
    BY <1>0
  <2>6. /\ j.fresh = job[s].fresh /\ j.answer = job[s].answer
        /\ ~Looking(job[s]) /\ ~Looking(j)
        /\ job[s].fresh => Owes(job[s])
    BY <2>2, <2>5
  <2>7. \A x : /\ Times(j.todo, x) \in Nat
               /\ Times(job[s].todo, x) = (IF x = deed THEN 1 ELSE 0) + Times(j.todo, x)
    BY <2>3, <2>5, Zenon
  <2>8. ToTheAnswer(j.todo, j.answer)
    BY <2>4, <2>5, <2>6
  <2>. QED
    BY <2>6, <2>7, <2>8
<1>4. queries \in Seq(1..MaxQueries) /\ unsupported \in Seq(1..MaxQueries) /\ id \in 1..MaxQueries
  BY <1>0, <1>2, RulesAssumption DEF RulesInv, TypeOK
<1>5. \A x : /\ Events(x) \in Nat
             /\ Events(x)' = Events(x) + (IF deed = "event" /\ x = id THEN 1 ELSE 0)
  <2>. TAKE x
  <2>1. Events(x) = Times(queries, x) /\ Events(x)' = Times(queries', x)
    BY DEF Events, Times
  <2>2. PICK S : S = 1..MaxQueries
    OBVIOUS
  <2>3. queries \in Seq(S) /\ id \in S
    BY <1>4, <2>2
  <2>4. Times(queries, x) \in Nat
    BY <2>3, TimesType
  <2>5. Times(Append(queries, id), x) = Times(queries, x) + IF x = id THEN 1 ELSE 0
    BY <2>3, TimesAppend
  <2>. QED
    BY <1>1, <2>1, <2>4, <2>5
<1>6. /\ Range(queries') \subseteq Range(queries) \cup {id}
      /\ Range(unsupported') =
            IF deed = "event" THEN Range(unsupported) ELSE Range(unsupported) \cup {id}
  <2>1. Range(Append(queries, id)) = Range(queries) \cup {id}
        /\ Range(Append(unsupported, id)) = Range(unsupported) \cup {id}
    <3>1. PICK S : S = 1..MaxQueries
      OBVIOUS
    <3>2. queries \in Seq(S) /\ unsupported \in Seq(S) /\ id \in S
      BY <1>4, <3>1
    <3>. QED
      BY <3>2, AppendedRange
  <2>2. deed = "event" => queries' = Append(queries, id) /\ unsupported' = unsupported
    BY <1>1
  <2>3. deed # "event" => queries' = queries /\ unsupported' = Append(unsupported, id)
    BY <1>1
  <2>. QED
    BY <2>1, <2>2, <2>3
<1>7. ASSUME j.fresh PROVE Owes(j)'
  <2>1. Owes(job[s]) /\ j.id = id /\ j.answer = job[s].answer /\ ~Looking(j)
    BY <1>0, <1>2, <1>3, <1>7
  <2>2. Events(id)' + Times(j.todo, "event") = Recorded(j.answer)
    <3>1. Events(id) + Times(job[s].todo, "event") = Recorded(j.answer)
      BY <1>0, <1>3, <2>1 DEF Owes
    <3>2. Times(job[s].todo, "event") = (IF deed = "event" THEN 1 ELSE 0) + Times(j.todo, "event")
          /\ Times(j.todo, "event") \in Nat
      BY <1>3
    <3>3. Events(id) \in Nat /\ Events(id)' = Events(id) + (IF deed = "event" THEN 1 ELSE 0)
      BY <1>5
    <3>4. PICK n, m \in Nat : n = Events(id) /\ m = Times(j.todo, "event")
      BY <3>2, <3>3
    <3>. QED
      BY <3>1, <3>2, <3>3, <3>4
  <2>3. (id \in Range(unsupported') \/ Times(j.todo, "unsupported") # 0)
            <=> j.answer \in {"unsupported", "syntax"}
    <3>1. (id \in Range(unsupported) \/ Times(job[s].todo, "unsupported") # 0)
              <=> j.answer \in {"unsupported", "syntax"}
      BY <1>0, <1>3, <2>1 DEF Owes
    <3>2. CASE deed = "event"
      BY <1>3, <1>6, <3>1, <3>2
    <3>3. CASE deed = "unsupported"
      <4>1. id \in Range(unsupported') /\ Times(job[s].todo, "unsupported") # 0
        BY <1>3, <1>6, <3>3
      <4>. QED
        BY <3>1, <4>1
    <3>. QED
      BY <1>1, <3>2, <3>3
  <2>. QED
    BY <2>1, <2>2, <2>3 DEF Owes, Looking
<1>. QED
  <2>1. /\ j.id = job[s].id /\ j.todo # <<>> /\ job[s].todo # <<>>
        /\ ~Looking(j) => ToTheAnswer(j.todo, j.answer)
        /\ j.fresh => Owes(j)'
    BY <1>0, <1>2, <1>3, <1>7 DEF ToTheAnswer
  <2>2. \A x : x # job[s].id =>
            /\ Events(x)' = Events(x)
            /\ x \in Range(unsupported') <=> x \in Range(unsupported)
    <3>1. \A x : x # id => Events(x)' = Events(x)
      BY <1>5
    <3>2. \A x : x # id => (x \in Range(unsupported') <=> x \in Range(unsupported))
      BY <1>6
    <3>. QED
      BY <1>0, <3>1, <3>2
  <2>3. /\ Range(queries') \subseteq Range(queries) \cup {job[s].id}
        /\ Range(unsupported') \subseteq Range(unsupported) \cup {job[s].id}
    BY <1>0, <1>6
  <2>. QED
    BY <1>1, <1>3, <2>1, <2>2, <2>3, RecordStep

\* The answer: what it needs is recorded, and nothing is left to do.
LEMMA TellRecords ==
    ASSUME RulesInv, RecordsInv, NEW s \in Sessions, Tell(s)
    PROVE  RecordsInv'
<1>. DEFINE entry == [id |-> job[s].id, answer |-> job[s].answer]
<1>1. Doing(s, "answer")
  BY DEF Tell
<1>2. /\ ~Looking(job[s]) /\ Len(job[s].todo) = 1 /\ Done(s).todo = <<>>
      /\ job[s].fresh => Owes(job[s])
      /\ \A x : /\ Times(Done(s).todo, x) \in Nat
                /\ Times(job[s].todo, x) =
                      (IF x = "answer" THEN 1 ELSE 0) + Times(Done(s).todo, x)
  BY <1>1, DoneCounts
<1>3. job[s].todo # <<>>
  BY <1>1 DEF Doing
<1>4. /\ job' = [job EXCEPT ![s] = NoJob]
      /\ told' = (IF job[s].fresh THEN told \cup {entry} ELSE told)
      /\ UNCHANGED <<queries, unsupported, carried>>
  BY <1>2 DEF Tell, kept, Rest
<1>5. \A r \in Sessions : job'[r] = IF r = s THEN NoJob ELSE job[r]
  BY <1>4 DEF RulesInv, TypeOK
<1>6. \A id : Events(id)' = Events(id)
  BY <1>4 DEF Events
<1>7. entry.id = job[s].id /\ entry.answer = job[s].answer
  OBVIOUS
<1>. HIDE DEF entry
<1>8. ASSUME job[s].fresh
      PROVE  /\ job[s].id \in Range(unsupported)
                    <=> job[s].answer \in {"unsupported", "syntax"}
             /\ Events(job[s].id) = Recorded(job[s].answer)
  <2>1. Times(job[s].todo, "event") = 0 /\ Times(job[s].todo, "unsupported") = 0
    <3>1. Times(Done(s).todo, "event") = 0 /\ Times(Done(s).todo, "unsupported") = 0
      BY <1>2, TimesNone
    <3>. QED
      BY <1>2, <3>1
  <2>2. Events(job[s].id) \in Nat
    BY EventsAreTimes, TimesType DEF RulesInv, TypeOK
  <2>3. Events(job[s].id) + Times(job[s].todo, "event") = Recorded(job[s].answer)
    BY <1>2, <1>8 DEF Owes
  <2>4. Events(job[s].id) = Recorded(job[s].answer)
    BY <2>1, <2>2, <2>3
  <2>. QED
    BY <1>2, <1>8, <2>1, <2>4 DEF Owes
<1>9. AnsweredIsRecorded'
  <2>1. ASSUME NEW t \in told'
        PROVE  /\ t.id \in Range(unsupported') <=> t.answer \in {"unsupported", "syntax"}
               /\ Events(t.id)' = Recorded(t.answer)
    <3>1. CASE t \in told
      BY <1>4, <1>6, <3>1 DEF RecordsInv, AnsweredIsRecorded, Recorded
    <3>2. CASE t \notin told
      <4>1. t = entry /\ job[s].fresh
        BY <1>4, <2>1, <3>2
      <4>2. t.id = job[s].id /\ t.answer = job[s].answer
        BY <1>7, <4>1
      <4>. QED
        BY <1>4, <1>6, <1>8, <4>1, <4>2
    <3>. QED
      BY <3>1, <3>2
  <2>2. ASSUME NEW r \in UnderWay
        PROVE  job[r].id \in {t.id : t \in told'} \cup {job'[q].id : q \in UnderWay'} \cup carried'
    <3>1. r \in Sessions /\ job[r].todo # <<>>
      BY <2>2 DEF UnderWay
    <3>2. CASE r # s
      BY <1>5, <3>1, <3>2 DEF UnderWay
    <3>3. CASE r = s /\ job[s].fresh
      BY <1>4, <1>7, <3>3
    <3>4. CASE r = s /\ ~job[s].fresh
      BY <1>3, <1>4, <3>4 DEF RecordsInv, OnRecord
    <3>. QED
      BY <3>2, <3>3, <3>4
  <2>3. Range(queries') \cup Range(unsupported') \subseteq
            {t.id : t \in told'} \cup {job'[q].id : q \in UnderWay'} \cup carried'
    <3>1. Range(queries') \cup Range(unsupported') \subseteq
              {t.id : t \in told} \cup {job[r].id : r \in UnderWay} \cup carried
      BY <1>4 DEF RecordsInv, AnsweredIsRecorded
    <3>2. told \subseteq told'
      BY <1>4
    <3>3. {t.id : t \in told} \subseteq {t.id : t \in told'}
      BY <3>2
    <3>. QED
      BY <1>4, <2>2, <3>1, <3>3
  <2>. QED
    BY <2>1, <2>3 DEF AnsweredIsRecorded, Recorded
<1>10. ASSUME NEW r \in Sessions PROVE OnRecord(job[r])'
  <2>1. CASE r = s
    BY <1>5, <2>1, NoJobType DEF OnRecord
  <2>2. CASE r # s
    <3>1. job'[r] = job[r] /\ OnRecord(job[r])
      BY <1>5, <2>2 DEF RecordsInv
    <3>2. job[r].todo # <<>> => \A t \in told' : t.id # job[r].id
      <4>1. job[r].todo # <<>> => job[r].id # job[s].id
        BY <1>3, <2>2 DEF RulesInv, QueriesApart
      <4>2. \A t \in told' : t \in told \/ t.id = job[s].id
        BY <1>4, <1>7
      <4>. QED
        BY <3>1, <4>1, <4>2 DEF OnRecord
    <3>3. Owes(job[r]) => Owes(job[r])'
      BY <1>4, <1>6, <3>1 DEF Owes, Looking
    <3>. QED
      BY <1>4, <3>1, <3>2, <3>3 DEF OnRecord, Looking, ToTheAnswer
  <2>. QED
    BY <2>1, <2>2
<1>. QED
  BY <1>9, <1>10 DEF RecordsInv

\* A new query is none of those recorded so far.
LEMMA AskRecords ==
    ASSUME RulesInv, RecordsInv, NEW s \in Sessions, Ask(s)
    PROVE  RecordsInv'
<1>1. PICK input \in Inputs : job' = [job EXCEPT ![s] =
          [NoJob EXCEPT !.id = asked + 1, !.text = input[1], !.args = input[2],
             !.todo = IF Route[input[1]] = "empty" THEN Plan("empty") ELSE <<"match">>,
             !.answer = IF Route[input[1]] = "empty" THEN "empty" ELSE "none"]]
  BY DEF Ask
<1>2. /\ UNCHANGED <<queries, unsupported, told, carried>>
      /\ job[s].todo = <<>> /\ asked \in Nat
  BY RulesAssumption DEF Ask, kept, history, RulesInv, TypeOK
<1>. DEFINE todo == IF Route[input[1]] = "empty" THEN Plan("empty") ELSE <<"match">>
            answer == IF Route[input[1]] = "empty" THEN "empty" ELSE "none"
            new == [NoJob EXCEPT !.id = asked + 1, !.text = input[1], !.args = input[2],
                                 !.todo = todo, !.answer = answer]
<1>3. PICK n, j : n = asked + 1 /\ j = new
  OBVIOUS
<1>4. j.id = n /\ j.todo = todo /\ j.answer = answer /\ j.fresh = TRUE
  BY <1>3, NoJobType DEF Jobs
<1>5. job' = [job EXCEPT ![s] = j]
  BY <1>1, <1>3
<1>. HIDE DEF new
<1>6. \A r \in Sessions : job'[r] = IF r = s THEN j ELSE job[r]
  BY <1>5 DEF RulesInv, TypeOK
<1>7. Looking(j) \/ Complete(j)
  <2>1. CASE Route[input[1]] = "empty"
    <3>1. Answer("empty") = "empty"
      BY DEF Answer
    <3>2. PlanCounts(Plan("empty"), Recorded("empty"), 0, 0)
      BY <3>1, PlanIsComplete
    <3>. QED
      BY <1>4, <2>1, <3>2 DEF Complete
  <2>2. CASE Route[input[1]] # "empty"
    BY <1>4, <2>2 DEF Looking
  <2>. QED
    BY <2>1, <2>2
<1>8. \A id : Events(id)' = Events(id)
  BY <1>2 DEF Events
<1>9. n \notin Range(queries) /\ n \notin Range(unsupported)
      /\ \A t \in told : t.id # n
  <2>1. \A t \in told : t.id \in 1..asked
    BY DEF RulesInv, TypeOK
  <2>2. \A r \in UnderWay : job[r].id \in 1..asked
    BY DEF RulesInv, InOrder, UnderWay
  <2>3. carried \subseteq 1..asked
    BY DEF RulesInv, TypeOK
  <2>4. n \notin 1..asked
    BY <1>2, <1>3
  <2>5. Range(queries) \cup Range(unsupported) \subseteq
            {t.id : t \in told} \cup {job[r].id : r \in UnderWay} \cup carried
    BY DEF RecordsInv, AnsweredIsRecorded
  <2>6. Range(queries) \cup Range(unsupported) \subseteq 1..asked
    BY <2>1, <2>2, <2>3, <2>5
  <2>. QED
    BY <2>1, <2>4, <2>6
<1>10. Events(n) = 0
  <2>1. \A i \in DOMAIN queries : queries[i] # n
    BY <1>9 DEF Range
  <2>. QED
    BY <2>1, EventsAreTimes, TimesType DEF RulesInv, TypeOK
<1>11. Owes(j) /\ j.todo # <<>> /\ (~Looking(j) => ToTheAnswer(j.todo, j.answer))
  <2>1. CASE Looking(j)
    <3>1. j.todo = <<"match">> /\ j.todo # <<>>
      BY <2>1 DEF Looking
    <3>2. Owes(j)
      BY <1>4, <1>9, <1>10, <2>1 DEF Owes
    <3>. QED
      BY <2>1, <3>1, <3>2
  <2>2. CASE Complete(j)
    BY <1>4, <1>9, <1>10, <2>2, CompleteOwes DEF ToTheAnswer
  <2>. QED
    BY <1>7, <2>1, <2>2
<1>12. Owes(j)'
  BY <1>2, <1>8, <1>11 DEF Owes, Looking
<1>13. ASSUME NEW r \in Sessions PROVE OnRecord(job[r])'
  <2>1. CASE r = s
    <3>1. job'[r] = j
      BY <1>6, <2>1
    <3>2. Owes(job[r])'
      BY <1>12, <3>1 DEF Owes, Looking
    <3>. QED
      BY <1>2, <1>4, <1>9, <1>11, <3>1, <3>2 DEF OnRecord, Looking, ToTheAnswer
  <2>2. CASE r # s
    <3>1. job'[r] = job[r] /\ OnRecord(job[r])
      BY <1>6, <2>2 DEF RecordsInv
    <3>2. Owes(job[r]) => Owes(job[r])'
      BY <1>2, <1>8, <3>1 DEF Owes, Looking
    <3>. QED
      BY <1>2, <3>1, <3>2 DEF OnRecord, Looking, ToTheAnswer
  <2>. QED
    BY <2>1, <2>2
<1>14. AnsweredIsRecorded'
  <2>1. {job[r].id : r \in UnderWay} \subseteq {job'[r].id : r \in UnderWay'}
    BY <1>2, <1>6 DEF UnderWay
  <2>2. \A t \in told' :
          /\ t.id \in Range(unsupported') <=> t.answer \in {"unsupported", "syntax"}
          /\ Events(t.id)' = CASE t.answer = "empty" -> 0 [] t.answer = "syntax" -> 2 [] OTHER -> 1
    BY <1>2, <1>8 DEF RecordsInv, AnsweredIsRecorded
  <2>3. Range(queries') \cup Range(unsupported') \subseteq
            {t.id : t \in told'} \cup {job'[r].id : r \in UnderWay'} \cup carried'
    BY <1>2, <2>1 DEF RecordsInv, AnsweredIsRecorded
  <2>. QED
    BY <2>2, <2>3 DEF AnsweredIsRecorded
<1>. QED
  BY <1>13, <1>14 DEF RecordsInv

\* When the lists are cleared, nobody has an answer that they should show, and
\* the queries under way are carried.
LEMMA ClearingRecords ==
    ASSUME RulesInv, RecordsInv, ResetDiagnostics
    PROVE  RecordsInv'
<1>1. /\ queries' = <<>> /\ unsupported' = <<>> /\ told' = {}
      /\ carried' = {job[s].id : s \in UnderWay}
      /\ job' = [s \in Sessions |->
                    IF s \in UnderWay THEN [job[s] EXCEPT !.fresh = FALSE] ELSE job[s]]
  BY DEF ResetDiagnostics
<1>2. Range(queries') = {} /\ Range(unsupported') = {}
  BY <1>1 DEF Range
<1>3. AnsweredIsRecorded'
  BY <1>1, <1>2 DEF AnsweredIsRecorded
<1>4. ASSUME NEW s \in Sessions PROVE OnRecord(job[s])'
  <2>1. PICK k \in Jobs : k = job[s]
    BY DEF RulesInv, TypeOK
  <2>2. job'[s] = IF s \in UnderWay THEN [k EXCEPT !.fresh = FALSE] ELSE k
    BY <1>1, <2>1
  <2>3. /\ job'[s].todo = k.todo /\ job'[s].id = k.id /\ job'[s].answer = k.answer
        /\ s \in UnderWay => job'[s].fresh = FALSE
    BY <2>2 DEF Jobs
  <2>4. CASE s \in UnderWay
    <3>1. job'[s].id \in carried'
      BY <1>1, <2>1, <2>3, <2>4
    <3>2. ~Looking(k) => ToTheAnswer(k.todo, k.answer)
      BY <2>1, <2>4 DEF RecordsInv, OnRecord, UnderWay
    <3>. QED
      BY <1>1, <2>3, <2>4, <3>1, <3>2 DEF OnRecord, Looking, ToTheAnswer
  <2>5. CASE s \notin UnderWay
    BY <2>1, <2>3, <2>5 DEF OnRecord, UnderWay
  <2>. QED
    BY <2>4, <2>5
<1>. QED
  BY <1>3, <1>4 DEF RecordsInv

LEMMA QueryRecords ==
    ASSUME RulesInv, RecordsInv, NEW s \in Sessions, SessionStep(s)
    PROVE  RecordsInv'
<1>1. CASE MatchRule(s) \/ NoRules(s)
  BY <1>1, MatchRecords
<1>2. ASSUME NEW deed \in {"delay", "after", "run", "count", "countUnsupported", "time"},
             Doing(s, deed), job' = [job EXCEPT ![s] = Done(s)],
             UNCHANGED <<carried, told, queries, unsupported>>
      PROVE  RecordsInv'
  <2>1. Done(s).id = job[s].id /\ Done(s).fresh = job[s].fresh /\ Done(s).answer = job[s].answer
    BY <1>2, DoneQuery, DoneCounts
  <2>2. PICK j : j = Done(s)
    OBVIOUS
  <2>. QED
    BY <1>2, <2>1, <2>2, DoneRecords
<1>3. CASE Delay(s)
  <2>1. PICK deed \in {"delay", "after"} : Doing(s, deed)
    BY <1>3 DEF Delay
  <2>. QED
    BY <1>2, <1>3, <2>1 DEF Delay, Next1, Rest, kept
<1>4. CASE Run(s)
  <2>1. Doing(s, "run") /\ UNCHANGED <<carried, told, queries, unsupported>>
    BY <1>4 DEF Run, Rest, kept
  <2>2. CASE Next1(s)
    BY <1>2, <2>1, <2>2 DEF Next1
  <2>3. CASE job' = [job EXCEPT ![s] = [Done(s) EXCEPT !.answer = "error"]]
    <3>1. /\ Done(s) \in Jobs /\ Done(s).id = job[s].id /\ Done(s).fresh = job[s].fresh
      BY <2>1, DoneQuery, DoneCounts
    <3>2. PICK k \in Jobs : k = Done(s)
      BY <3>1
    <3>3. PICK j : j = [k EXCEPT !.answer = "error"]
      OBVIOUS
    <3>4. j.todo = k.todo /\ j.id = k.id /\ j.fresh = k.fresh /\ j.answer = "error"
      BY <3>3 DEF Jobs
    <3>5. job' = [job EXCEPT ![s] = j]
      BY <2>3, <3>2, <3>3
    <3>. QED
      BY <2>1, <3>1, <3>2, <3>4, <3>5, DoneRecords
  <2>4. CASE job' = [job EXCEPT ![s] = [Done(s) EXCEPT !.answer = "syntax",
                                                       !.todo = AfterSyntaxError(@)]]
    BY <2>1, <2>4, SyntaxErrorRecords
  <2>. QED
    BY <1>4, <2>2, <2>3, <2>4 DEF Run
<1>5. CASE Count(s)
  BY <1>2, <1>5 DEF Count, Next1, Rest
<1>6. CASE CountUnsupported(s)
  BY <1>2, <1>6 DEF CountUnsupported, Next1, Rest
<1>7. CASE Time(s)
  BY <1>2, <1>7 DEF Time, Next1, Rest
<1>8. CASE Event(s) \/ Unsupported(s)
  BY <1>8, EventRecords
<1>9. CASE Tell(s)
  BY <1>9, TellRecords
<1>. QED
  BY <1>1, <1>3, <1>4, <1>5, <1>6, <1>7, <1>8, <1>9 DEF SessionStep

LEMMA NextRecordsInv == RulesInv /\ RecordsInv /\ [Next]_vars => RecordsInv'
<1>. SUFFICES ASSUME RulesInv, RecordsInv, [Next]_vars PROVE RecordsInv'
  OBVIOUS
<1>1. ASSUME UNCHANGED <<queries, unsupported, told, carried, job>> PROVE RecordsInv'
  <2>1. \A id : Events(id)' = Events(id)
    BY <1>1 DEF Events
  <2>2. AnsweredIsRecorded'
    BY <1>1, <2>1 DEF RecordsInv, AnsweredIsRecorded, UnderWay
  <2>3. ASSUME NEW s \in Sessions PROVE OnRecord(job[s])'
    <3>1. job'[s] = job[s] /\ OnRecord(job[s])
      BY <1>1 DEF RecordsInv
    <3>2. Owes(job[s]) => Owes(job[s])'
      BY <1>1, <2>1, <3>1 DEF Owes, Looking
    <3>. QED
      BY <1>1, <3>1, <3>2 DEF OnRecord, Looking, ToTheAnswer
  <2>. QED
    BY <2>2, <2>3 DEF RecordsInv
<1>2. ASSUME NEW s \in Sessions, Ask(s) PROVE RecordsInv'
  BY <1>2, AskRecords
<1>3. ASSUME NEW s \in Sessions, SessionStep(s) PROVE RecordsInv'
  BY <1>3, QueryRecords
<1>4. CASE ResetDiagnostics
  BY <1>4, ClearingRecords
<1>5. CASE ResetCalled \/ ResetData \/ ResetRules \/ ResetCounted
  BY <1>1, <1>5 DEF ResetCalled, ResetData, ResetRules, ResetCounted, kept, history
<1>6. CASE UNCHANGED vars
  BY <1>1, <1>6 DEF vars, kept, history
<1>. QED
  BY <1>2, <1>3, <1>4, <1>5, <1>6 DEF Next, ResetStep

LEMMA InitRecordsInv == Init => RecordsInv
<1>. SUFFICES ASSUME Init PROVE RecordsInv
  OBVIOUS
<1>1. /\ queries = <<>> /\ unsupported = <<>> /\ told = {}
      /\ \A s \in Sessions : job[s].todo = <<>>
  BY NoJobType DEF Init
<1>2. Range(queries) = {} /\ Range(unsupported) = {}
  BY <1>1 DEF Range
<1>. QED
  BY <1>1, <1>2 DEF RecordsInv, AnsweredIsRecorded, OnRecord

-----------------------------------------------------------------------------
(* The theorems.                                                           *)

\* The server's lists, counters and marks, and every query, have their types:
\* the marks are of rules that there are, and events of queries that were asked.
THEOREM ListsHaveTheirTypes == Spec => []TypeOK
<1>1. RulesInv => TypeOK
  BY DEF RulesInv
<1>. QED
  BY <1>1, RulesInvariance, PTL

\* "The first matching rule wins unless it has already been consumed"
\* (matchRule, rules.go): however many sessions match a once rule at once, and
\* whenever Reset clears the marks, it answers one query between two clearings,
\* and no query is kept from it by its own mark.
THEOREM OnceIsOnce == Spec => []FirstUnlessUsed
<1>1. RulesInv => FirstUnlessUsed
  BY DEF RulesInv, MarksAreTakes, PassedToOthers, FirstUnlessUsed
<1>. QED
  BY <1>1, RulesInvariance, PTL

\* What a test finds in the server's lists after an answer (logQuery and
\* recordUnsupported, protocol.go; diagnosticsStore, server_state.go): however
\* queries, rules, syntax errors and Resets interleave, every answered query
\* has as many events as its answer needs, is in the list of unsupported
\* queries exactly if it was one, and a cleared list shows nothing of earlier
\* queries but those that were under way.
THEOREM ListsTellAnswers == Spec => []AnsweredIsRecorded
<1>1. RecordsInv => AnsweredIsRecorded
  BY DEF RecordsInv
<1>. QED
  BY <1>1, InitRecordsInv, NextRecordsInv, RulesInvariance, PTL DEF Spec
=============================================================================
