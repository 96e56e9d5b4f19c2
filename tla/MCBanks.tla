------------------------------ MODULE MCBanks ------------------------------
(* A small instance of Banks for TLC. *)
EXTENDS Banks, TLC

Row(n, c, act, sup) == [name |-> n, code |-> c, active |-> act, supports_transfer |-> sup]

\* "First" is a prefix of "First MFB"; "Guaranty" has the alias "GT"; two banks may share a name.
MCNames == {"First", "First MFB", "Guaranty", "GT"}
MCCodes == {"1", "2", "3", "4", "9"}
MCPrefix == {<<"First", "First MFB">>}

MCFallback == {[name |-> "First", code |-> "1"], [name |-> "GT", code |-> "3"]}

MCAnswers ==
  {{Row("First", "1", "true", "true"), Row("First MFB", "2", "true", "true"),
    Row("Guaranty", "3", "absent", "true")},
   {Row("First", "1", "true", "absent"), Row("First MFB", "2", "true", "false")},
   {Row("First", "1", "false", "true"), Row("First MFB", "2", "true", "true"),
    Row("Guaranty", "3", "true", "true")},
   {Row("First", "1", "true", "true"), Row("First", "4", "true", "true")},
   {Row("First", "1", "false", "true")}}

Named(n, a) == [name |-> n, alias |-> a, code |-> "none"]
Coded(c) == [name |-> "none", alias |-> "none", code |-> c]

MCInputs ==
  {Named("First", "1"), Named("First", "none"), Named("First MFB", "none"), Named("GT", "3"),
   Named("Guaranty", "none"), Coded("2"), Coded("9"), Named("none", "none")}

Symmetric == Permutations(Callers)
=============================================================================
