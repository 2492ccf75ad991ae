------------------------- MODULE MCQRVerification -------------------------
(* Small instances of QRVerification for TLC. *)
EXTENDS QRVerification, TLC

\* No scope (the default ones), and scopes that do and do not need the profile.
MCScopeChoices == {{}, {"identity_valid", "age"}}

Symmetric == Permutations(Scanners) \cup Permutations(Tokens)
=============================================================================
