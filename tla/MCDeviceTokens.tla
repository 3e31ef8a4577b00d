--------------------------- MODULE MCDeviceTokens ---------------------------
(* Instances of DeviceTokens for TLC. *)
EXTENDS DeviceTokens, TLC

\* Tokens, requests and accounts are interchangeable, as long as Swept is empty.
Symmetry == Permutations(Tokens) \cup Permutations(Requests) \cup Permutations(Users)
=============================================================================
