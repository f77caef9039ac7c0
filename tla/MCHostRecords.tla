--------------------------- MODULE MCHostRecords ---------------------------
(* A small instance of HostRecords.  Requests, host keys and generated keys *)
(* are interchangeable.  The forms send the user's name with a blank before *)
(* it, which they may; the exchange dialog sends it with or without.        *)
EXTENDS HostRecords, TLC

CONSTANTS Here, There, Me, MeWithBlank

MCUsers == {Me, MeWithBlank}
MCTrim == [user \in MCUsers |-> Me]

Form(address, method, secret) ==
  [address |-> address, user |-> MeWithBlank, method |-> method, secret |-> secret]
MCForms ==
  {Form(Here, "password", TRUE), Form(There, "password", FALSE),
   Form(There, "privateKey", TRUE)}

Symmetry ==
  Permutations(Requests) \cup Permutations(Generated) \cup Permutations(HostKeys)
=============================================================================
