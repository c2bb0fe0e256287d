----------------------------- MODULE MCLicensing -----------------------------
(* An instance of Licensing for TLC: terms of one and two days, and an admin *)
(* who may end a license a day ago.                                         *)
EXTENDS Licensing

OneDayBack == {-1}
=============================================================================
