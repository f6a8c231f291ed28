----------------------------- MODULE CertFiles -----------------------------
(***************************************************************************)
(* What a renewal writes: node.crt and node.key of one enrollment, each    *)
(* through its temporary file, by calls of renewCert that nothing keeps    *)
(* apart, and the Nebula service that loads them                           *)
(* (internal/client/renew.go).  CertRenewal has the times.                 *)
(*                                                                         *)
(* A certificate and its key are one number; a file that was truncated and *)
(* is not yet written is Junk.                                             *)
(***************************************************************************)
EXTENDS Integers, FiniteSets

CONSTANTS
    Loop,          \* the goroutine of runCertRenewal
    Forced,        \* handleForceRenew and Client.ForceRenew requests
    MaxSerial,     \* certificates that can be in use at a time
    MaxReloads,    \* length of retryReloadBackoff
    MaxFaults      \* forced renewals and crashes of a behaviour

Serials == 1..MaxSerial
None == 0
Junk == -1
Files == {"crt", "key"}
Writers == {Loop} \cup Forced

VARIABLES
    file,       \* contents of the files
    tmp,        \* contents of their temporary files
    old,        \* node.crt has expired
    w,          \* the calls of renewCert
    svc,        \* Nebula runs with a valid certificate, an expired one, or not
    reloads,    \* attempts scheduleRetryReload has left
    faults      \* disturbances so far

vars == <<file, tmp, old, w, svc, reloads, faults>>

\* A call of renewCert: where it is, which file it writes, what it received, the
\* file its descriptor leads to, and whether no other call has written meanwhile.
Call(pc, f, s, fd, alone) == [pc |-> pc, f |-> f, s |-> s, fd |-> fd, alone |-> alone]
At(pc) == Call(pc, "crt", None, "none", TRUE)

Calls == [pc : {"idle", "post", "open", "fill", "rename", "reload"},
          f : Files, s : Serials \cup {None},
          fd : {"none", "tmp", "file", "gone"}, alone : BOOLEAN]

TypeOK ==
    /\ file \in [Files -> Serials \cup {Junk}]
    /\ tmp \in [Files -> Serials \cup {Junk, None}]
    /\ old \in BOOLEAN
    /\ w \in [Writers -> Calls]
    /\ svc \in {"valid", "expired", "down"}
    /\ reloads \in 0..MaxReloads
    /\ faults \in 0..MaxFaults

\* An enrollment has just been installed and its instance started.
Init ==
    /\ file = [f \in Files |-> 1]
    /\ tmp = [f \in Files |-> None]
    /\ old = FALSE
    /\ w = [x \in Writers |-> At("idle")]
    /\ svc = "valid" /\ reloads = 0 /\ faults = 0

Writing(x) == w[x].pc \in {"open", "fill", "rename"}

\* The certificates in files and calls; the number of one among them by age, which
\* keeps different ones apart, and that of the next.
Live == ({file[f] : f \in Files} \cup {tmp[f] : f \in Files} \cup {w[x].s : x \in Writers}) \cap Serials
Rank(s) == IF s \in Live THEN Cardinality({t \in Live : t <= s}) ELSE s
Newest == Cardinality(Live) + 1

Become(x, c) == w' = [w EXCEPT ![x] = c]
-----------------------------------------------------------------------------
(* renewCert.                                                              *)

\* Mutant: an instance without a service has nothing to renew.
RunCertRenewalUp ==
    /\ svc # "down"
    /\ w[Loop].pc = "idle"
    /\ file["crt"] \in Serials /\ old
    /\ Become(Loop, At("post"))
    /\ UNCHANGED <<file, tmp, old, svc, reloads, faults>>

\* The loop renews a certificate that has expired; one that cannot be parsed
\* is left for the next poll.
RunCertRenewal ==
    /\ w[Loop].pc = "idle"
    /\ file["crt"] \in Serials /\ old
    /\ Become(Loop, At("post"))
    /\ UNCHANGED <<file, tmp, old, svc, reloads, faults>>

\* A request of the user, through the local API or the embedding program.
ForceRenew(x) ==
    /\ x \in Forced
    /\ w[x].pc = "idle"
    /\ faults < MaxFaults
    /\ faults' = faults + 1
    /\ Become(x, At("post"))
    /\ UNCHANGED <<file, tmp, old, svc, reloads>>

\* The server issues a certificate and the response arrives.  The certificates that
\* are still around are numbered by age, so that few numbers are enough.
Renew(x) ==
    /\ w[x].pc = "post"
    /\ Cardinality(Live) < MaxSerial
    /\ file' = [f \in Files |-> Rank(file[f])]
    /\ tmp' = [f \in Files |-> Rank(tmp[f])]
    /\ w' = [y \in Writers |->
               IF y = x THEN Call("open", "crt", Newest, "none", \A z \in Writers : ~Writing(z))
               ELSE [w[y] EXCEPT !.s = Rank(@), !.alone = w[y].pc \in {"idle", "post"}]]
    /\ UNCHANGED <<old, svc, reloads, faults>>

\* renewCert returns an error: a forced renewal reports it, renewNow tries again, or
\* gives up until a later poll.
ReturnError(x) ==
    \/ Become(x, At("idle"))
    \/ x = Loop /\ Become(x, At("post"))

\* The request fails, is refused, or its response is lost.
RenewFails(x) ==
    /\ w[x].pc = "post"
    /\ ReturnError(x)
    /\ UNCHANGED <<file, tmp, old, svc, reloads, faults>>

\* atomicWrite: os.WriteFile creates or truncates the temporary file...
WriteFileOpen(x) ==
    LET f == w[x].f IN
    /\ w[x].pc = "open"
    /\ tmp' = [tmp EXCEPT ![f] = Junk]
    /\ Become(x, Call("fill", f, w[x].s, "tmp", w[x].alone))
    /\ UNCHANGED <<file, old, svc, reloads, faults>>

\* ... and writes it, wherever a rename has moved it since.
WriteFile(x) ==
    LET f == w[x].f
        s == w[x].s IN
    /\ w[x].pc = "fill"
    /\ tmp' = IF w[x].fd = "tmp" THEN [tmp EXCEPT ![f] = s] ELSE tmp
    /\ file' = IF w[x].fd = "file" THEN [file EXCEPT ![f] = s] ELSE file
    /\ old' = (old /\ ~(w[x].fd = "file" /\ f = "crt"))
    /\ Become(x, Call("rename", f, s, "none", w[x].alone))
    /\ UNCHANGED <<svc, reloads, faults>>

\* The disk is full, or the directory cannot be written.
WriteFileFails(x) ==
    /\ w[x].pc \in {"open", "fill"}
    /\ ReturnError(x)
    /\ UNCHANGED <<file, tmp, old, svc, reloads, faults>>

\* Descriptors follow the file they were opened for.
Moved(y, f) ==
    IF w[y].pc = "fill" /\ w[y].f = f
      THEN [w[y] EXCEPT !.fd = IF w[y].fd = "tmp" THEN "file" ELSE "gone"]
      ELSE w[y]

\* Mutant: the key is taken to be unchanged.
ThenReload(c) == Call("reload", c.f, None, "none", c.alone)

\* The certificate is followed by the key, the key by the reload.
Then(c) ==
    IF c.f = "crt" THEN Call("open", "key", c.s, "none", c.alone)
    ELSE Call("reload", "key", None, "none", c.alone)

\* atomicWrite: os.Rename.
Rename(x) ==
    LET f == w[x].f IN
    /\ w[x].pc = "rename"
    /\ tmp[f] # None
    /\ file' = [file EXCEPT ![f] = tmp[f]]
    /\ tmp' = [tmp EXCEPT ![f] = None]
    /\ old' = (old /\ f # "crt")
    /\ w' = [y \in Writers |-> IF y = x THEN Then(w[x]) ELSE Moved(y, f)]
    /\ UNCHANGED <<svc, reloads, faults>>

\* Another call has renamed the temporary file already.
RenameFails(x) ==
    /\ w[x].pc = "rename"
    /\ tmp[w[x].f] = None
    /\ ReturnError(x)
    /\ UNCHANGED <<file, tmp, old, svc, reloads, faults>>
-----------------------------------------------------------------------------
(* Nebula.                                                                 *)

\* Nebula starts with a certificate and a key that belong together; an expired
\* certificate is accepted for a while.
Paired == file["crt"] = file["key"] /\ file["crt"] # Junk
Loaded == IF old THEN "expired" ELSE "valid"

\* reloadNebula: the new service runs with the files as they are now.
ReloadNebula(x) ==
    /\ w[x].pc = "reload"
    /\ Paired
    /\ svc' = Loaded
    /\ Become(x, At("idle"))
    /\ UNCHANGED <<file, tmp, old, reloads, faults>>

\* reloadNebula: the old service is closed and the new one does not start.  A hot
\* restart schedules retries, a cold start does not.
ReloadNebulaFails(x) ==
    /\ w[x].pc = "reload"
    /\ svc' = "down"
    /\ reloads' = IF svc = "down" THEN reloads ELSE MaxReloads
    /\ Become(x, At("idle"))
    /\ UNCHANGED <<file, tmp, old, faults>>

\* scheduleRetryReload: another path has restored the service, the start
\* succeeds, or one attempt is used up.
RetryReload ==
    /\ reloads > 0
    /\ \/ svc # "down" /\ reloads' = 0 /\ UNCHANGED svc
       \/ svc = "down" /\ Paired /\ reloads' = 0 /\ svc' = Loaded
       \/ svc = "down" /\ reloads' = reloads - 1 /\ UNCHANGED svc
    /\ UNCHANGED <<file, tmp, old, w, faults>>
-----------------------------------------------------------------------------
\* NotAfter passes, of the file's certificate and of the one Nebula loaded, but not
\* in the seconds that a renewal takes to write its files.
Expire ==
    /\ \A x \in Writers : w[x].pc \in {"idle", "post"}
    /\ \/ file["crt"] # Junk /\ ~old /\ old' = TRUE /\ UNCHANGED svc
       \/ svc = "valid" /\ svc' = "expired" /\ UNCHANGED old
    /\ UNCHANGED <<file, tmp, w, reloads, faults>>

\* The agent dies and is started again; the files stay as they are.
Crash ==
    /\ faults < MaxFaults
    /\ faults' = faults + 1
    /\ w' = [x \in Writers |-> At("idle")]
    /\ svc' \in {"down"} \cup (IF Paired THEN {Loaded} ELSE {})
    /\ reloads' = 0
    /\ UNCHANGED <<file, tmp, old>>

RenewCert(x) ==
    \/ Renew(x) \/ RenewFails(x)
    \/ WriteFileOpen(x) \/ WriteFile(x) \/ WriteFileFails(x)
    \/ Rename(x) \/ RenameFails(x)
    \/ ReloadNebula(x) \/ ReloadNebulaFails(x)

Next ==
    \/ RunCertRenewal
    \/ \E x \in Writers : ForceRenew(x) \/ RenewCert(x)
    \/ RetryReload
    \/ Expire
    \/ Crash

Spec == Init /\ [][Next]_vars

\* The scheduler runs every goroutine that can go on, and certificates expire.
\* The server, the disk and the start of Nebula do not fail for ever.
FairSpec ==
    /\ Spec
    /\ WF_vars(Expire) /\ WF_vars(RunCertRenewal) /\ WF_vars(RetryReload)
    /\ \A x \in Writers : WF_vars(RenewCert(x))
    /\ SF_vars(Renew(Loop)) /\ SF_vars(ReloadNebula(Loop))
    /\ \A f \in Files :
          /\ SF_vars(w[Loop].f = f /\ WriteFileOpen(Loop))
          /\ SF_vars(w[Loop].f = f /\ WriteFile(Loop))
-----------------------------------------------------------------------------
\* A renewal during which no other one wrote leaves a certificate with its key,
\* whatever pair and temporary files it found.
AloneWritesPair ==
    \A x \in Writers :
        w[x].pc = "reload" /\ w[x].alone => Paired

\* Nebula comes back with a valid certificate after failed writes, a certificate
\* left with another key, a crash and failed reloads: the loop replaces both
\* files once the certificate has expired.  It never replaces a node.crt that
\* cannot be parsed.
MeshRecovers == []<>(svc = "valid" \/ file["crt"] = Junk)
=============================================================================
