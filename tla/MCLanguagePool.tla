---------------------------- MODULE MCLanguagePool ----------------------------
(* Two files of one language and one of a language whose server is pinned. *)
EXTENDS LanguagePool

CONSTANTS a, b, c

Languages == (a :> "searched") @@ (b :> "searched") @@ (c :> "pinned")
SameLanguage == Permutations({a, b})
===============================================================================
