---------------------------- MODULE MCCertificates -----------------------------
(* Certificates for TLC: one domain, that is two subjects with one challenge   *)
(* name.                                                                       *)
EXTENDS Certificates, TLC

MCDomains == <<"d1">>
===============================================================================
