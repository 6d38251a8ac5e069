----------------------------- MODULE Certificates ------------------------------
(***************************************************************************)
(* provisionTLS of oobsrv/tls.go: the certificate of the TLS listeners     *)
(* comes from the operator's files, which a reloader follows, or else from *)
(* ACME.  (With SkipACME and no files there is no TLS and nothing to do.)  *)
(***************************************************************************)
EXTENDS CertReloader, AcmeCerts

certVars == <<files, served, modTime, reloader, startedAt, readFaults,
              stored, cached, records, job, provisioner, evictor, disableARI, lost,
              ages, restarts, faults>>

\* cfg.CertFile and cfg.PrivKeyFile are set: no ACME.
FilesInit ==
    /\ ReloaderInit
    /\ AcmeIdle

\* They are not: no reloader.
NoFilesInit ==
    /\ AcmeInit
    /\ ReloaderIdle

Init == FilesInit \/ NoFilesInit

\* Nothing is left to do: the bounds are used up and the reloader is gone.
ReloaderGone ==
    /\ reloader.pc \in {"failed", "closed"} /\ LastWrite = MaxWrites
    /\ UNCHANGED certVars

Next ==
    \/ ReloaderNext /\ UNCHANGED acmeVars
    \/ AcmeNext /\ UNCHANGED reloaderVars
    \/ ReloaderGone

Spec == Init /\ [][Next]_certVars

FairSpec == Spec /\ ReloaderFairness /\ AcmeFairness
===============================================================================
