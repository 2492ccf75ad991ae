--------------------------- MODULE MCConsentFlow ---------------------------
(* Small instances of ConsentFlow for TLC. *)
EXTENDS ConsentFlow, TLC

\* One scope read from the identity, one read from the profile; none.
MCScopeChoices == {{}, {"identity_valid", "legal_name"}}
MCOneScopeChoice == {{"identity_valid", "legal_name"}}

MCStatuses == {"ACTIVE", "SUSPENDED"}

Symmetric == Permutations(Clients) \cup Permutations(Requests)
                \cup Permutations(Identities)
=============================================================================
