-------------------------- MODULE TranslationCache --------------------------
(***************************************************************************)
(* One of the four caches of sql_translation_cache.go: the parsed form of  *)
(* a text under that text, the oldest entry dropped at the limit.          *)
(* translationMu is held for the look and for the store; sessions          *)
(* translate in between, the same text perhaps, and perhaps while what     *)
(* they found missing is stored and dropped again.                         *)
(*                                                                         *)
(* The parsed form of a text is only what the caller does with it: it is   *)
(* executed as this kind of statement, it is another kind (cached, too),   *)
(* or parsing fails (not cached).                                          *)
(*                                                                         *)
(* The names differ from Metadata's, since Translation_proofs extends both.*)
(***************************************************************************)
EXTENDS Naturals, FiniteSets, Sequences, Functions

CONSTANTS
    Translators,
    Matching, Others, Malformed,  \* texts by what parsing says of them
    Limit,     \* sqlTranslationCacheLimit
    MaxCalls   \* bound of the model

Texts == Matching \cup Others \cup Malformed

ASSUME CacheAssumption ==
    /\ Matching \cap Others = {}
    /\ Malformed \cap (Matching \cup Others) = {}
    /\ Limit \in Nat \ {0}
    /\ MaxCalls \in Nat

VARIABLES
    items,   \* text to parsed form
    order,   \* texts, the one stored first in front
    translation, \* each session: its call
    answer,  \* each session: what the last call returned
    calls    \* bound

translationVars == <<items, order, translation, answer, calls>>

Forms == {"statement", "other", "error"}

\* parseMySQLUpsertStatementTemplate and the like, which read nothing else.
Parse(t) ==
    IF t \in Matching THEN "statement" ELSE IF t \in Others THEN "other" ELSE "error"

Places == {"idle", "look", "parse", "store"}

\* The order lists what is cached, each text once, and the limit holds.
TranslationTypeOK ==
    /\ DOMAIN items \subseteq Texts
    /\ \A t \in DOMAIN items : items[t] \in Forms
    /\ order \in Seq(Texts)
    /\ IsInjective(order) /\ Range(order) = DOMAIN items
    /\ Cardinality(DOMAIN items) <= Limit
    /\ translation \in [Translators -> [pc : Places, text : Texts]]
    /\ answer \in [Translators -> Forms \cup {"none"}]
    /\ calls \in 0..MaxCalls

TranslationInit ==
    /\ items = << >> /\ order = << >>
    /\ translation \in [Translators -> [pc : {"idle"}, text : Texts]]
    /\ answer = [s \in Translators |-> "none"]
    /\ calls = 0

At(s, place) == translation[s].pc = place
GoesTo(s, place) == translation' = [translation EXCEPT ![s].pc = place]
Returns(s, form) == GoesTo(s, "idle") /\ answer' = [answer EXCEPT ![s] = form]

Call(s, t) ==
    /\ At(s, "idle") /\ calls < MaxCalls
    /\ translation' = [translation EXCEPT ![s] = [pc |-> "look", text |-> t]]
    /\ calls' = calls + 1
    /\ UNCHANGED <<items, order, answer>>

LookText(s) ==
    /\ At(s, "look")
    /\ IF translation[s].text \in DOMAIN items
       THEN Returns(s, items[translation[s].text])
       ELSE GoesTo(s, "parse") /\ UNCHANGED answer
    /\ UNCHANGED <<items, order, calls>>

\* Mutant of ParseText: an error is stored as well.
ParseTextStoresAll(s) ==
    /\ At(s, "parse")
    /\ GoesTo(s, "store")
    /\ UNCHANGED <<items, order, answer, calls>>

ParseText(s) ==
    /\ At(s, "parse")
    /\ IF Parse(translation[s].text) = "error" THEN Returns(s, "error")
       ELSE GoesTo(s, "store") /\ UNCHANGED answer
    /\ UNCHANGED <<items, order, calls>>

\* What an entry keeps of a parsed form: whether the text is such a statement.
Kept(form) == IF form = "statement" THEN form ELSE "other"

With(t, kept) ==
    [u \in kept \cup {t} |-> IF u = t THEN Kept(Parse(t)) ELSE items[u]]

\* Mutant of CacheStore: a text that is there gets a second place in the order.
CacheStoreAgain(t) ==
    LET evicted == IF Cardinality(DOMAIN items) >= Limit THEN {Head(order)} ELSE {} IN
    /\ items' = With(t, DOMAIN items \ evicted)
    /\ order' = Append(IF evicted = {} THEN order ELSE Tail(order), t)

\* cacheStore: a text that is there keeps its place; for a new one the oldest
\* goes, as often as the limit asks for.
CacheStore(t) ==
    LET evicted == IF Cardinality(DOMAIN items) >= Limit THEN {Head(order)} ELSE {} IN
    IF t \in DOMAIN items
    THEN items' = With(t, DOMAIN items) /\ UNCHANGED order
    ELSE /\ items' = With(t, DOMAIN items \ evicted)
         /\ order' = Append(IF evicted = {} THEN order ELSE Tail(order), t)

StoreText(s) ==
    /\ At(s, "store")
    /\ CacheStore(translation[s].text)
    /\ Returns(s, Parse(translation[s].text))
    /\ UNCHANGED calls

TranslationNext ==
    \E s \in Translators :
        \/ \E t \in Texts : Call(s, t)
        \/ LookText(s) \/ ParseText(s) \/ StoreText(s)

TranslationSpec == TranslationInit /\ [][TranslationNext]_translationVars

\* A session gets for its text what parsing the text says, however the texts of
\* others came into the cache and went, and an error every time.
AnswersAreFresh ==
    [][\A s \in Translators :
         ~At(s, "idle") /\ translation'[s].pc = "idle" => answer'[s] = Parse(translation[s].text)]_translationVars
=============================================================================
