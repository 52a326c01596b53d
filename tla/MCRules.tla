------------------------------ MODULE MCRules ------------------------------
(* Rules for two sessions; the servers have no rules, or rules of every way   *)
(* to match, or the configuration is one that is refused.                     *)
EXTENDS Rules

CONSTANTS s1, s2

AllTexts == {"job", "JOB", "drop", "users", "grant", ""}
NormalForm == [t \in AllTexts \cup {"none"} |-> IF t = "JOB" THEN "job" ELSE t]
FoundIn == {<<"p", "drop">>, <<"s", "users">>}
Where ==
    [t \in AllTexts |->
        CASE t = "" -> "empty" [] t = "drop" -> "ddl" [] t = "users" -> "sqlite"
          [] t = "grant" -> "unsupported" [] OTHER -> "compat"]
Sent == {<<t, <<>>>> : t \in AllTexts} \cup {<<"users", <<1>>>>}
Printed == [a \in 1..2 |-> "1"]

Rule(match, sql, params, once, delay, profile, type) ==
    [match |-> match, sql |-> sql, params |-> params, once |-> once, delay |-> delay,
     after |-> delay, profile |-> profile, type |-> type, rows |-> TRUE]

Files ==
    { << Rule("normalized", "job", AnyArgs, TRUE, TRUE, "deadlock", ""),
         Rule("", "job", AnyArgs, TRUE, FALSE, "", "ok"),
         Rule("regex", "p", AnyArgs, FALSE, FALSE, "", "result_set"),
         Rule("contains", "s", <<2>>, TRUE, TRUE, "disconnect", "") >>,
      << Rule("any", "none", <<1>>, FALSE, FALSE, "", "ok") >>,
      << Rule("exact", "none", AnyArgs, FALSE, FALSE, "", "ok") >>,
      <<>> }
=============================================================================
