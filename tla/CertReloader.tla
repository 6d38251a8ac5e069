----------------------------- MODULE CertReloader ------------------------------
(***************************************************************************)
(* certReloader of oobsrv/tls.go: a certificate and a key file that an     *)
(* operator replaces one after the other, read by a goroutine that looks   *)
(* at them once an hour.  Every os.Stat and every file read is a step.     *)
(*                                                                         *)
(* A file's version counts its replacements and its mtime is the number of *)
(* the write, so a later write has a later mtime.  A certificate and a key *)
(* belong together when they have the same version.                        *)
(***************************************************************************)
EXTENDS Naturals

CONSTANTS
    MaxWrites,      \* bound: writes to the two files
    MaxReadFaults   \* bound: looks at a file that fail

ASSUME WritesAssumption == MaxWrites \in Nat /\ MaxReadFaults \in Nat

VARIABLES
    files,      \* files[f]: version and mtime of a file
    served,     \* the version GetCertificate returns
    modTime,    \* modTimeNs
    reloader,   \* where the goroutine is ("off": not configured), what it read
    startedAt,  \* history: writes when newCertReloader returned
    readFaults  \* failures so far

reloaderVars == <<files, served, modTime, reloader, startedAt, readFaults>>

FileNames == {"cert", "key"}
Newest(a, b) == IF b > a THEN b ELSE a

LastWrite == Newest(files["cert"].mtime, files["key"].mtime)
Complete(v) == \A f \in FileNames : files[f].version = v

ReloaderAt(pc) ==
    /\ files = [f \in FileNames |-> [version |-> 0, mtime |-> 0]]
    /\ served = 0
    /\ modTime = 0
    /\ reloader = [pc |-> pc, isNew |-> TRUE, cert |-> 0, mtime |-> 0]
    /\ startedAt = MaxWrites + 1
    /\ readFaults = 0

\* newCertReloader is called, or never is.
ReloaderInit == ReloaderAt("readCert")
ReloaderIdle == ReloaderAt("off")

\* The operator replaces one of the files, in either order, never twice in a row.
Replace(f) ==
    /\ reloader.pc # "off"
    /\ LastWrite < MaxWrites
    /\ \A g \in FileNames : files[f].version <= files[g].version
    /\ files' = [files EXCEPT ![f] = [version |-> @.version + 1, mtime |-> LastWrite + 1]]
    /\ UNCHANGED <<served, modTime, reloader, startedAt, readFaults>>

-------------------------------------------------------------------------------
(* tls.LoadX509KeyPair: the certificate file, then the key file. *)

ReadCert ==
    /\ reloader.pc = "readCert"
    /\ reloader' = [reloader EXCEPT !.pc = "readKey", !.cert = files["cert"].version]
    /\ UNCHANGED <<files, served, modTime, startedAt, readFaults>>

IsPair == reloader.cert = files["key"].version

\* In newCertReloader: the times are looked at after the files were read.
ReadKeyNew ==
    /\ reloader.pc = "readKey" /\ reloader.isNew
    /\ reloader' = [reloader EXCEPT !.pc = IF IsPair THEN "statCert" ELSE "failed"]
    /\ UNCHANGED <<files, served, modTime, startedAt, readFaults>>

\* In tryReload: the time recorded is the one seen before the files were read.
ReadKeyReload ==
    /\ reloader.pc = "readKey" /\ ~reloader.isNew
    /\ reloader' = [reloader EXCEPT !.pc = "wait"]
    /\ IF IsPair
       THEN served' = reloader.cert /\ modTime' = reloader.mtime
       ELSE UNCHANGED <<served, modTime>>
    /\ UNCHANGED <<files, startedAt, readFaults>>

\* Faulty variant: the time is recorded although nothing was loaded.
ReadFailsRecorded ==
    /\ readFaults < MaxReadFaults
    /\ readFaults' = readFaults + 1
    /\ reloader.pc \in {"readCert", "readKey"}
    /\ reloader' = [reloader EXCEPT !.pc = IF reloader.isNew THEN "failed" ELSE "wait"]
    /\ modTime' = reloader.mtime
    /\ UNCHANGED <<files, served, startedAt>>

\* "could not load certificate", "could not reload certificate": a file could
\* not be read just now.
ReadFails ==
    /\ readFaults < MaxReadFaults
    /\ readFaults' = readFaults + 1
    /\ reloader.pc \in {"readCert", "readKey"}
    /\ reloader' = [reloader EXCEPT !.pc = IF reloader.isNew THEN "failed" ELSE "wait"]
    /\ UNCHANGED <<files, served, modTime, startedAt>>

-------------------------------------------------------------------------------
(* latestModTime: the certificate file, then the key file. *)

StatCert ==
    /\ reloader.pc = "statCert"
    /\ reloader' = [reloader EXCEPT !.pc = "statKey", !.mtime = files["cert"].mtime]
    /\ UNCHANGED <<files, served, modTime, startedAt, readFaults>>

Latest == Newest(reloader.mtime, files["key"].mtime)

StatKeyNew ==
    /\ reloader.pc = "statKey" /\ reloader.isNew
    /\ served' = reloader.cert
    /\ modTime' = Latest
    /\ reloader' = [reloader EXCEPT !.pc = "wait", !.isNew = FALSE]
    /\ startedAt' = LastWrite
    /\ UNCHANGED <<files, readFaults>>

StatKeyReload ==
    /\ reloader.pc = "statKey" /\ ~reloader.isNew
    /\ reloader' = [reloader EXCEPT !.pc = IF Latest <= modTime THEN "wait" ELSE "readCert",
                                    !.mtime = Latest]
    /\ UNCHANGED <<files, served, modTime, startedAt, readFaults>>

\* "could not stat certificate files".
StatFails ==
    /\ readFaults < MaxReadFaults
    /\ readFaults' = readFaults + 1
    /\ reloader.pc \in {"statCert", "statKey"}
    /\ reloader' = [reloader EXCEPT !.pc = IF reloader.isNew THEN "failed" ELSE "wait"]
    /\ UNCHANGED <<files, served, modTime, startedAt>>

\* The ticker fires; Close ends the goroutine between two reloads.
CheckTick ==
    /\ reloader.pc = "wait"
    /\ reloader' = [reloader EXCEPT !.pc = "statCert"]
    /\ UNCHANGED <<files, served, modTime, startedAt, readFaults>>

CloseReloader ==
    /\ reloader.pc = "wait"
    /\ reloader' = [reloader EXCEPT !.pc = "closed"]
    /\ UNCHANGED <<files, served, modTime, startedAt, readFaults>>

Reloading ==
    \/ ReadCert \/ ReadKeyNew \/ ReadKeyReload \/ ReadFails
    \/ StatCert \/ StatKeyNew \/ StatKeyReload \/ StatFails
    \/ CheckTick

ReloaderNext == Reloading \/ CloseReloader \/ \E f \in FileNames : Replace(f)

\* The goroutine runs and the ticker keeps firing.
ReloaderFairness == WF_reloaderVars(Reloading)

-------------------------------------------------------------------------------
\* A rotation whose last write came after the reloader was made is served, if
\* the files then stay as they are, wherever the goroutine was when the two
\* files were replaced (tls.go:273-292): neither a half-done rotation nor a
\* failed read makes it look at the new pair as already loaded.
RotationServed ==
    \A v \in 0 .. MaxWrites :
        (Complete(v) /\ LastWrite > startedAt)
            ~> (served = v \/ ~Complete(v) \/ reloader.pc = "closed")
===============================================================================
