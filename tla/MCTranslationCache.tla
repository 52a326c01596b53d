------------------------- MODULE MCTranslationCache -------------------------
(* TranslationCache for three sessions and four texts, of which the cache     *)
(* holds two.                                                                 *)
EXTENDS TranslationCache, TLC

Interchangeable == Permutations(Translators) \cup Permutations(Matching)
=============================================================================
