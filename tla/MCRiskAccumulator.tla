------------------------- MODULE MCRiskAccumulator --------------------------
(* One name, two RRNs, an account and a phone number, alone and combined.  *)
EXTENDS RiskAccumulator

name == <<"NAME", 1>>
rrn == <<"RRN", 1>>
otherRrn == <<"RRN", 2>>
account == <<"ACCOUNT", 1>>
phone == <<"PHONE", 1>>

SomeTurns ==
    {<<>>, <<name>>, <<rrn>>, <<otherRrn, otherRrn>>, <<account, name>>,
     <<account, phone>>}
=============================================================================
