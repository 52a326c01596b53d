------------------------------- MODULE Rules -------------------------------
(***************************************************************************)
(* What happens to a query before and around its execution: the rules of   *)
(* the configuration (rules.go), the routes of executeQuery (protocol.go), *)
(* and what the server keeps of it: query events, unsupported queries      *)
(* (server_state.go) and counters (stats.go).  Server.Reset clears the     *)
(* first two and the used once rules while queries may be under way.       *)
(***************************************************************************)
EXTENDS Naturals, Sequences, FiniteSets, Functions

CONSTANTS
    Sessions,
    Texts,         \* the SQL texts clients send
    NoText,        \* the empty request.sql of a rule
    Normal,        \* normalizeSQL: text -> text, the same for texts that agree
    Covers,        \* pairs: the pattern or part on the left is found in the text
    Inputs,        \* pairs: a text and the list of parameters that comes with it
    AnyArgs,       \* a rule without request.params
    Null,          \* nil among the parameters
    Repr,          \* fmt.Sprint of a parameter
    Route,         \* text -> where executeQuery sends it when no rule matches
    ConfigFiles,   \* the rule lists that configurations give
    MaxQueries,    \* bound of the model: queries of all sessions
    MaxResets      \* bound of the model: calls of Server.Reset

Routes == {"empty", "compat", "ddl", "sqlite", "unsupported"}
Matches == {"exact", "normalized", "regex", "contains", "any"}
Types == {"ok", "result_set", "error", "disconnect"}

ASSUME RulesAssumption ==
    /\ MaxQueries \in Nat /\ MaxResets \in Nat
    /\ NoText \notin Texts
    /\ Normal \in [Texts \cup {NoText} -> Texts \cup {NoText}]
    /\ \A i \in Inputs : i[1] \in Texts
    /\ \A file \in ConfigFiles : file \in Seq(Range(file))
    /\ Route \in [Texts -> Routes]

-----------------------------------------------------------------------------
(* The configuration.                                                      *)

\* ruleResponseProfiles, by the type of response they stand for.
Profiles ==
    [deadlock |-> "error", lock_wait_timeout |-> "error", duplicate_key |-> "error",
     foreign_key_violation |-> "error", disconnect |-> "disconnect"]

\* applyDefaults: an empty match is exact, an empty type is the profile's.
WithDefaults(r) ==
    [r EXCEPT !.match = IF r.match = "" THEN "exact" ELSE r.match,
              !.type = IF r.type = "" /\ r.profile \in DOMAIN Profiles
                       THEN Profiles[r.profile] ELSE r.type]

\* validateRuleConfig, of a rule with its defaults; rows says whether every row
\* of a result set has a value for every column (buildRuleResultSet).
ValidRule(r) ==
    /\ r.profile # "" => r.profile \in DOMAIN Profiles /\ r.type = Profiles[r.profile]
    /\ r.match \in Matches
    /\ r.match # "any" => r.sql # NoText
    /\ r.type \in Types
    /\ r.type = "result_set" => r.rows

\* What the server starts with: prepareRules keeps the order of the file.
Prepared(file) == [i \in DOMAIN file |-> WithDefaults(file[i])]
Accepted == {file \in ConfigFiles : \A i \in DOMAIN file : ValidRule(WithDefaults(file[i]))}

-----------------------------------------------------------------------------
VARIABLES
    rules,        \* s.rules
    used,         \* s.ruleOnceUsed
    queries,      \* s.diagnostics.queries, the ids of the queries
    unsupported,  \* s.diagnostics.unsupported, likewise
    stats,        \* s.stats: queries, unsupported, timed, resets
    reset,        \* where Server.Reset is
    job,          \* each session: the query it works on
    asked,        \* number of queries so far, the id of the last one
    resets,       \* number of resets so far
    epoch,        \* history: how often used was cleared
    takes,        \* history: once rules taken, with epoch and query
    told,         \* history: queries answered since the diagnostics were cleared
    carried       \* history: queries under way when they were

history == <<epoch, takes, told, carried>>
kept == <<queries, unsupported, stats>>
vars == <<rules, used, kept, reset, job, asked, resets, history>>

\* What is left to do for a query, in the order the code does it.
Deeds == {"match", "delay", "after", "run", "count", "event", "countUnsupported",
          "unsupported", "time", "answer"}

\* A session's query: its id and what came with it, the rule to look at next,
\* what is left to do, how it ends, the once rules it found used, and whether
\* it was asked after the diagnostics were last cleared.
Jobs ==
    [id : 0..MaxQueries, text : Texts \cup {NoText}, args : {<<>>} \cup {i[2] : i \in Inputs},
     at : Nat, todo : Seq(Deeds),
     answer : {"none", "rule", "done", "error", "unsupported", "syntax", "empty"},
     passed : SUBSET (Nat \X (0..MaxResets)), fresh : BOOLEAN]

NoJob == [id |-> 0, text |-> NoText, args |-> <<>>, at |-> 1, todo |-> <<>>,
          answer |-> "none", passed |-> {}, fresh |-> TRUE]

TypeOK ==
    /\ rules \in {Prepared(file) : file \in Accepted}
    /\ used \subseteq DOMAIN rules
    /\ queries \in Seq(1..MaxQueries)
    /\ unsupported \in Seq(1..MaxQueries)
    /\ stats \in [queries : Nat, unsupported : Nat, timed : Nat, resets : 0..MaxResets]
    /\ reset \in {"idle", "data", "diagnostics", "rules", "count"}
    /\ job \in [Sessions -> Jobs]
    /\ asked \in 0..MaxQueries
    /\ resets \in 0..MaxResets
    /\ epoch \in 0..resets
    /\ takes \subseteq [rule : DOMAIN rules, epoch : 0..epoch, id : 1..asked]
    /\ \A t \in told : t.id \in 1..asked
    /\ carried \subseteq 1..asked

Init ==
    /\ rules \in {Prepared(file) : file \in Accepted}
    /\ used = {}
    /\ queries = <<>> /\ unsupported = <<>>
    /\ stats = [queries |-> 0, unsupported |-> 0, timed |-> 0, resets |-> 0]
    /\ reset = "idle"
    /\ job = [s \in Sessions |-> NoJob]
    /\ asked = 0 /\ resets = 0
    /\ epoch = 0 /\ takes = {} /\ told = {} /\ carried = {}

-----------------------------------------------------------------------------
(* The order of things.                                                    *)

\* logQuery: the counters, then the list.
Logged == <<"count", "event">>

\* recordUnsupported, which ends with logQuery.
RecordedUnsupported == <<"countUnsupported", "unsupported">> \o Logged

\* What executeQuery, and then its caller, do on each route.  A compat query
\* that asks SQLite for its answer (SHOW TABLES, information_schema) is logged,
\* run and told as on the route "sqlite", and has that plan here.
Plan(route) ==
    CASE route = "empty"       -> <<"answer">>
      [] route = "compat"      -> Logged \o <<"time", "answer">>
      [] route = "ddl"         -> <<"run">> \o Logged \o <<"time", "answer">>
      [] route = "sqlite"      -> Logged \o <<"run", "time", "answer">>
      [] route = "unsupported" -> RecordedUnsupported \o <<"time", "answer">>
      [] OTHER                 -> Logged \o <<"time", "answer">>

Answer(route) ==
    CASE route = "empty" -> "empty" [] route = "unsupported" -> "unsupported" [] OTHER -> "done"

\* What a rule's response needs: its delay, and for a disconnect another one.
Response(r) ==
    (IF r.delay THEN <<"delay">> ELSE <<>>)
    \o (IF r.type = "disconnect" /\ r.after THEN <<"after">> ELSE <<>>)
    \o Plan("rules")

Doing(s, deed) == job[s].todo # <<>> /\ Head(job[s].todo) = deed
Done(s) == [job[s] EXCEPT !.todo = Tail(@)]
Next1(s) == job' = [job EXCEPT ![s] = Done(s)]
Rest == <<rules, reset, asked, resets, epoch, carried>>

\* A client sends a text, as a COM_QUERY or with the arguments of a statement.
Ask(s) ==
    /\ job[s].todo = <<>> /\ asked < MaxQueries
    /\ asked' = asked + 1
    /\ \E input \in Inputs :
          LET empty == Route[input[1]] = "empty" IN
          job' = [job EXCEPT ![s] =
                    [NoJob EXCEPT !.id = asked + 1, !.text = input[1], !.args = input[2],
                                  !.todo = IF empty THEN Plan("empty") ELSE <<"match">>,
                                  !.answer = IF empty THEN "empty" ELSE "none"]]
    /\ UNCHANGED <<rules, used, kept, reset, resets, history>>

-----------------------------------------------------------------------------
(* Rules.                                                                  *)

\* ruleValueEqual: nil is equal to nil only, the rest by what it prints.
SameValue(want, got) ==
    IF Null \in {want, got} THEN want = got ELSE Repr[want] = Repr[got]

\* ruleParamsMatch.
ParamsMatch(want, got) ==
    want # AnyArgs =>
        Len(want) = Len(got) /\ \A i \in DOMAIN want : SameValue(want[i], got[i])

\* preparedRule.matches.
RuleMatches(r, text, args) ==
    /\ ParamsMatch(r.params, args)
    /\ CASE r.match = "exact"      -> text = r.sql
         [] r.match = "normalized" -> Normal[text] = Normal[r.sql]
         [] r.match = "any"        -> TRUE
         [] OTHER                  -> <<r.sql, text>> \in Covers

Matched(s) == RuleMatches(rules[job[s].at], job[s].text, job[s].args)

\* The match is over; the text is not looked at any more.
Planned(j, todo, answer) ==
    [j EXCEPT !.todo = todo, !.answer = answer, !.text = NoText, !.args = <<>>, !.at = 1]

\* The next rule, or the route of the text when there is no other.
PassesRule(s, passed) ==
    LET j == [job[s] EXCEPT !.passed = passed]
        route == Route[j.text]
    IN  job' = [job EXCEPT ![s] =
                  IF j.at < Len(rules) THEN [j EXCEPT !.at = @ + 1]
                  ELSE Planned(j, Plan(route), Answer(route))]

TakesRule(s) ==
    job' = [job EXCEPT ![s] = Planned(@, Response(rules[@.at]), "rule")]

\* Mutant of Marked: the rule after the one that matched is marked.
MarkedNext(i) == used \cup {i + 1}

Marked(i) == used \cup {i}

\* Session s is the one to use once rule i.
Uses(s, i) ==
    /\ used' = Marked(i)
    /\ takes' = takes \cup {[rule |-> i, epoch |-> epoch, id |-> job[s].id]}

\* Mutant of MatchRule: whether a once rule is used is not looked at.
MatchRuleUnchecked(s) ==
    LET i == job[s].at IN
    /\ Doing(s, "match") /\ rules # <<>>
    /\ IF Matched(s) THEN TakesRule(s) ELSE PassesRule(s, job[s].passed)
    /\ IF Matched(s) /\ rules[i].once THEN Uses(s, i) ELSE UNCHANGED <<used, takes>>
    /\ UNCHANGED <<kept, Rest, told>>

\* Mutant of MatchRule: a used rule is looked at again and not the next one.
MatchRuleStays(s) ==
    LET i == job[s].at IN
    /\ Doing(s, "match") /\ rules # <<>>
    /\ Matched(s) => ~(rules[i].once /\ i \in used)
    /\ IF Matched(s) THEN TakesRule(s) ELSE PassesRule(s, job[s].passed)
    /\ IF Matched(s) /\ rules[i].once THEN Uses(s, i) ELSE UNCHANGED <<used, takes>>
    /\ UNCHANGED <<kept, Rest, told>>

\* matchRule looks at one rule after the other; only the test and the mark of
\* a once rule are made under the server's lock.
MatchRule(s) ==
    LET i == job[s].at IN
    /\ Doing(s, "match") /\ rules # <<>>
    /\ \/ /\ ~Matched(s)
          /\ PassesRule(s, job[s].passed)
          /\ UNCHANGED <<used, takes>>
       \/ /\ Matched(s) /\ ~rules[i].once
          /\ TakesRule(s)
          /\ UNCHANGED <<used, takes>>
       \/ /\ Matched(s) /\ rules[i].once /\ i \notin used
          /\ TakesRule(s)
          /\ Uses(s, i)
       \/ /\ Matched(s) /\ rules[i].once /\ i \in used
          /\ PassesRule(s, job[s].passed \cup {<<i, epoch>>})
          /\ UNCHANGED <<used, takes>>
    /\ UNCHANGED <<kept, Rest, told>>

\* A server without rules.
NoRules(s) ==
    /\ Doing(s, "match") /\ rules = <<>>
    /\ LET route == Route[job[s].text] IN
       job' = [job EXCEPT ![s] = Planned(@, Plan(route), Answer(route))]
    /\ UNCHANGED <<used, takes, kept, Rest, told>>

\* waitRuleDelay: the timer; a handler's context is never cancelled.
Delay(s) ==
    /\ Doing(s, "delay") \/ Doing(s, "after")
    /\ Next1(s)
    /\ UNCHANGED <<used, takes, kept, Rest, told>>

-----------------------------------------------------------------------------
(* Execution and what is kept of it.                                       *)

\* What is left but for the answer, which comes last.
BeforeAnswer(todo) == SubSeq(todo, 1, Len(todo) - 1)

\* Mutant of AfterSyntaxError: the client has its answer first.
AfterSyntaxErrorLate(todo) ==
    BeforeAnswer(todo) \o <<"answer">> \o RecordedUnsupported

\* SQLite's syntax error is recorded by the caller of executeQuery, after the
\* query's time, as an unsupported query: a second event of the same query.
AfterSyntaxError(todo) ==
    BeforeAnswer(todo) \o RecordedUnsupported \o <<"answer">>

\* The statement itself, in SQLite or for DDL in the compatibility layer.
Run(s) ==
    /\ Doing(s, "run")
    /\ \/ Next1(s)
       \/ job' = [job EXCEPT ![s] = [Done(s) EXCEPT !.answer = "error"]]
       \/ job' = [job EXCEPT ![s] = [Done(s) EXCEPT !.answer = "syntax",
                                                    !.todo = AfterSyntaxError(@)]]
    /\ UNCHANGED <<used, takes, kept, Rest, told>>

\* statsStore.recordQuery.
Count(s) ==
    /\ Doing(s, "count") /\ Next1(s)
    /\ stats' = [stats EXCEPT !.queries = @ + 1]
    /\ UNCHANGED <<used, takes, queries, unsupported, Rest, told>>

\* diagnosticsStore.recordQuery.
Event(s) ==
    /\ Doing(s, "event") /\ Next1(s)
    /\ queries' = Append(queries, job[s].id)
    /\ UNCHANGED <<used, takes, unsupported, stats, Rest, told>>

\* statsStore.recordUnsupported.
CountUnsupported(s) ==
    /\ Doing(s, "countUnsupported") /\ Next1(s)
    /\ stats' = [stats EXCEPT !.unsupported = @ + 1]
    /\ UNCHANGED <<used, takes, queries, unsupported, Rest, told>>

\* diagnosticsStore.recordUnsupported.
Unsupported(s) ==
    /\ Doing(s, "unsupported") /\ Next1(s)
    /\ unsupported' = Append(unsupported, job[s].id)
    /\ UNCHANGED <<used, takes, queries, stats, Rest, told>>

\* statsStore.recordQueryTiming, deferred by executeQuery.
Time(s) ==
    /\ Doing(s, "time") /\ Next1(s)
    /\ stats' = [stats EXCEPT !.timed = @ + 1]
    /\ UNCHANGED <<used, takes, queries, unsupported, Rest, told>>

\* The answer goes out, or a disconnect rule closes the connection and the
\* client comes back with another one.
Tell(s) ==
    /\ Doing(s, "answer")
    /\ job' = [job EXCEPT ![s] = IF Len(@.todo) = 1 THEN NoJob ELSE Done(s)]
    /\ told' = IF job[s].fresh THEN told \cup {[id |-> job[s].id, answer |-> job[s].answer]}
               ELSE told
    /\ UNCHANGED <<used, takes, kept, Rest>>

SessionStep(s) ==
    \/ MatchRule(s) \/ NoRules(s) \/ Delay(s) \/ Run(s) \/ Count(s) \/ Event(s)
    \/ CountUnsupported(s) \/ Unsupported(s) \/ Time(s) \/ Tell(s)

-----------------------------------------------------------------------------
(* Server.Reset, as far as it concerns rules and diagnostics.              *)

ResetCalled ==
    /\ reset = "idle" /\ resets < MaxResets
    /\ reset' = "data" /\ resets' = resets + 1
    /\ UNCHANGED <<rules, used, kept, job, asked, history>>

\* The data is reset, or that fails and nothing else is touched.
ResetData ==
    /\ reset = "data"
    /\ reset' \in {"diagnostics", "idle"}
    /\ UNCHANGED <<rules, used, kept, job, asked, resets, history>>

\* Queries under way may have left events already, and may still add some.
UnderWay == {s \in Sessions : job[s].todo # <<>>}

ResetDiagnostics ==
    /\ reset = "diagnostics" /\ reset' = "rules"
    /\ queries' = <<>> /\ unsupported' = <<>>
    /\ told' = {}
    /\ carried' = {job[s].id : s \in UnderWay}
    /\ job' = [s \in Sessions |-> IF s \in UnderWay THEN [job[s] EXCEPT !.fresh = FALSE] ELSE job[s]]
    /\ UNCHANGED <<rules, used, stats, asked, resets, epoch, takes>>

\* Mutant of ResetRules: the used rules stay used.
ResetRulesForgotten ==
    /\ reset = "rules" /\ reset' = "count"
    /\ epoch' = epoch + 1
    /\ UNCHANGED <<rules, used, kept, job, asked, resets, takes, told, carried>>

ResetRules ==
    /\ reset = "rules" /\ reset' = "count"
    /\ used' = {}
    /\ epoch' = epoch + 1
    /\ UNCHANGED <<rules, kept, job, asked, resets, takes, told, carried>>

ResetCounted ==
    /\ reset = "count" /\ reset' = "idle"
    /\ stats' = [stats EXCEPT !.resets = @ + 1]
    /\ UNCHANGED <<rules, used, queries, unsupported, job, asked, resets, history>>

ResetStep == ResetData \/ ResetDiagnostics \/ ResetRules \/ ResetCounted

Next ==
    \/ \E s \in Sessions : Ask(s) \/ SessionStep(s)
    \/ ResetCalled \/ ResetStep

\* A session's goroutine runs and timers go off; Reset's caller goes on.
Fairness == WF_vars(ResetStep) /\ \A s \in Sessions : WF_vars(SessionStep(s))

Spec == Init /\ [][Next]_vars /\ Fairness

-----------------------------------------------------------------------------
(* Properties.                                                             *)

\* "The first matching rule wins unless it has already been consumed": between
\* two clearings by Reset a once rule answers one query at most, however many
\* sessions match it at once, and a query passes by a matching rule only when
\* another query has it, of the same time between two clearings.
FirstUnlessUsed ==
    /\ \A t, u \in takes : t.rule = u.rule /\ t.epoch = u.epoch => t = u
    /\ \A s \in Sessions : \A p \in job[s].passed :
          \E t \in takes : t.rule = p[1] /\ t.epoch = p[2] /\ t.id # job[s].id

\* Number of events of query id.
Events(id) == Cardinality({i \in DOMAIN queries : queries[i] = id})

\* A client that has its answer finds its query in the server's lists, which
\* is what tests assert (AssertNoUnsupported, query snapshots): the unsupported
\* ones, and no others, in the one list; every query once in the other, and
\* one with a syntax error twice.  A test that calls Reset finds nothing of
\* earlier queries, except those that were under way during the Reset.
AnsweredIsRecorded ==
    /\ \A t \in told :
          /\ t.id \in Range(unsupported) <=> t.answer \in {"unsupported", "syntax"}
          /\ Events(t.id) = CASE t.answer = "empty" -> 0 [] t.answer = "syntax" -> 2 [] OTHER -> 1
    /\ Range(queries) \cup Range(unsupported) \subseteq
          {t.id : t \in told} \cup {job[s].id : s \in UnderWay} \cup carried

\* Every query comes to its end, whatever delays its rule has and whatever
\* Reset does meanwhile.
QueriesEnd == \A s \in Sessions : job[s].todo # <<>> ~> job[s].todo = <<>>
=============================================================================
