--------------------------- MODULE NodeEnrollment ---------------------------
(***************************************************************************)
(* How nodes come into a network (internal/api/device.go, enroll.go,       *)
(* bundles.go and their stores): by a device code that a user authorizes,  *)
(* by an enrollment token, by a downloaded bundle, or by joining with a    *)
(* session.  Each is a request of several database statements; the write   *)
(* connection serialises single statements and transactions, not requests. *)
(***************************************************************************)
EXTENDS Naturals, FiniteSetsExt

CONSTANTS
    Codes,      \* device codes
    Nodes,      \* identifiers of node rows; every insert uses a fresh one
    Requests,   \* request goroutines
    MaxHost     \* last host of the subnet (254)

Hosts == 2..MaxHost

ASSUME HostAssumption == MaxHost \in Nat
ASSUME NoneAssumption == "none" \notin Codes \cup Nodes

VARIABLES
    code,     \* device_codes: status, expired, node_id
    row,      \* nodes: status and ip; "enrolled" stands for online and offline as well
    token,    \* nodes.enrollment_token: "none", "open" or "expired"
    bundle,   \* enrollment_bundles: "none" or "open" (neither used nor expired)
    req,      \* per request: program counter, kind, code, node, ip
    made,     \* the rows that were created for a device code
    given,    \* how often the credentials of a node were handed out
    certs     \* certificates in the hands of agents and not expired

enrollVars == <<code, row, token, bundle, req, made, given, certs>>

State(pc, kind, c, n, ip) == [pc |-> pc, kind |-> kind, code |-> c, node |-> n, ip |-> ip]

IdleReq == State("idle", "none", "none", "none", 0)

ReqAt(r, pc) == req[r].pc = pc

ReqBecomes(r, rec) == req' = [req EXCEPT ![r] = rec]

ReqGoto(r, pc) == ReqBecomes(r, [req[r] EXCEPT !.pc = pc])

\* An error is reported, or the request is done: it leaves everything as it is.
Fail(r) == ReqBecomes(r, IdleReq) /\ UNCHANGED <<code, row, token, bundle, made, given, certs>>

Exists(n) == row[n].status \in {"pending", "enrolled"}

EnrollInit ==
    /\ code = [c \in Codes |-> [status |-> "none", expired |-> FALSE, node |-> "none"]]
    /\ row = [n \in Nodes |-> [status |-> "fresh", ip |-> 0]]
    /\ token = [n \in Nodes |-> "none"]
    /\ bundle = [n \in Nodes |-> "none"]
    /\ req = [r \in Requests |-> IdleReq]
    /\ made = [c \in Codes |-> {}]
    /\ given = [n \in Nodes |-> 0]
    /\ certs = {}

-----------------------------------------------------------------------------
\* Device codes.

SetStatus(c, s) ==
    /\ code' = [code EXCEPT ![c].status = s]
    /\ UNCHANGED <<row, token, bundle, req, made, given, certs>>

\* RequestCode.
RequestCode(c) == code[c].status = "none" /\ SetStatus(c, "pending")

\* Authorize: by a user who may enroll nodes.
Authorize(c) == code[c].status = "pending" /\ ~code[c].expired /\ SetStatus(c, "authorized")

\* deviceCodeTTL passes.
Expire(c) ==
    /\ code[c].status # "none" /\ ~code[c].expired
    /\ code' = [code EXCEPT ![c].expired = TRUE]
    /\ UNCHANGED <<row, token, bundle, req, made, given, certs>>

\* The hourly clean-up.
DeleteExpired(c) == code[c].expired /\ code[c].status # "gone" /\ SetStatus(c, "gone")

\* Poll: the cheap look at the code; every other status is answered at once.
Poll(r, c) ==
    /\ ReqAt(r, "idle")
    /\ code[c].status = "authorized" /\ ~code[c].expired
    /\ ReqBecomes(r, State("claim", "poll", c, "none", 0))
    /\ UNCHANGED <<code, row, token, bundle, made, given, certs>>

\* Mutant: the claim trusts the look that came before it.
ClaimAuthorizedBlindly(r) ==
    LET c == req[r].code
    IN  /\ ReqAt(r, "claim")
        /\ code' = [code EXCEPT ![c].status = "completed"]
        /\ ReqGoto(r, "load")
        /\ UNCHANGED <<row, token, bundle, made, given, certs>>

\* ClaimAuthorized: one transaction.
ClaimAuthorized(r) ==
    LET c == req[r].code
    IN  /\ ReqAt(r, "claim")
        /\ IF code[c].status = "authorized" /\ ~code[c].expired
             THEN /\ code' = [code EXCEPT ![c].status = "completed"]
                  /\ ReqGoto(r, "load")
                  /\ UNCHANGED <<row, token, bundle, made, given, certs>>
             ELSE Fail(r)

-----------------------------------------------------------------------------
\* Enrollment tokens.

\* Enroll begins with ClaimEnrollmentToken: token and expiry are set to NULL.
Enroll(r, n) ==
    /\ ReqAt(r, "idle") /\ token[n] = "open"
    /\ token' = [token EXCEPT ![n] = "none"]
    /\ ReqBecomes(r, State("load", "enroll", "none", n, row[n].ip))
    /\ UNCHANGED <<code, row, bundle, made, given, certs>>

\* The ten minutes of a token pass.
ExpireToken(n) ==
    /\ token[n] = "open"
    /\ token' = [token EXCEPT ![n] = "expired"]
    /\ UNCHANGED <<code, row, bundle, req, made, given, certs>>

\* Poll and Enroll go on: the network is loaded; a missing network, or one that the
\* agent says it is enrolled in already, ends the request.
Load(r) ==
    /\ ReqAt(r, "load")
    /\ \/ ReqGoto(r, IF req[r].kind = "poll" THEN "index" ELSE "issue")
          /\ UNCHANGED <<code, row, token, bundle, made, given, certs>>
       \/ Fail(r)

\* CreateNode, JoinNetwork and CreateBundle, after their checks.
NewNodeRequest(r) ==
    /\ ReqAt(r, "idle")
    /\ \E k \in {"create", "join", "bundle"} : ReqBecomes(r, State("index", k, "none", "none", 0))
    /\ UNCHANGED <<code, row, token, bundle, made, given, certs>>

-----------------------------------------------------------------------------
\* A new row.

Addresses == {row[n].ip : n \in {m \in Nodes : Exists(m)}}

\* NextNodeIndex with NodeAddress: one above the highest address in use.
NextHost == Max(Addresses \cup {1}) + 1

NextNodeIndex(r) ==
    /\ ReqAt(r, "index") /\ NextHost \in Hosts
    /\ ReqBecomes(r, [req[r] EXCEPT !.pc = "insert", !.ip = NextHost])
    /\ UNCHANGED <<code, row, token, bundle, made, given, certs>>

\* SubnetIP: the index is out of range.
OutOfRange(r) == ReqAt(r, "index") /\ NextHost \notin Hosts /\ Fail(r)

\* Create: the row appears with its address and, for CreateNode, its token.
Create(r, n) ==
    LET k == req[r].kind  c == req[r].code
    IN  /\ ReqAt(r, "insert") /\ row[n].status = "fresh"
        /\ req[r].ip \notin Addresses
        /\ row' = [row EXCEPT ![n] = [status |-> IF k = "join" THEN "enrolled" ELSE "pending",
                                      ip |-> req[r].ip]]
        /\ token' = [token EXCEPT ![n] = IF k = "create" THEN "open" ELSE @]
        /\ made' = [d \in Codes |-> IF k = "poll" /\ d = c THEN made[d] \cup {n} ELSE made[d]]
        /\ ReqBecomes(r, IF k = "create" THEN IdleReq ELSE [req[r] EXCEPT !.pc = "issue", !.node = n])
        /\ UNCHANGED <<code, bundle, given, certs>>

\* The address was taken in the meantime, or the insert failed.
CreateFails(r) == ReqAt(r, "insert") /\ Fail(r)

\* IssueCert.
IssueCert(r) ==
    /\ ReqAt(r, "issue")
    /\ \/ ReqGoto(r, "complete") /\ UNCHANGED <<code, row, token, bundle, made, given, certs>>
       \/ Fail(r)

AfterUpdate(kind) ==
    CASE kind = "poll" -> "record" [] kind = "bundle" -> "bundle" [] OTHER -> "reply"

\* Mutant: the credentials are handed out without the update.
CompleteEnrollmentSkipped(r) ==
    /\ ReqAt(r, "complete")
    /\ ReqGoto(r, AfterUpdate(req[r].kind))
    /\ UNCHANGED <<code, row, token, bundle, made, given, certs>>

\* CompleteEnrollment: an update by id, and no error when the row is gone.
CompleteEnrollment(r) ==
    LET n == req[r].node
    IN  /\ ReqAt(r, "complete")
        /\ \/ /\ row' = [row EXCEPT ![n].status = IF Exists(n) THEN "enrolled" ELSE @]
              /\ ReqGoto(r, AfterUpdate(req[r].kind))
              /\ UNCHANGED <<code, token, bundle, made, given, certs>>
           \/ Fail(r)

\* CreateBundle ends with the download token.
CreateBundle(r) ==
    /\ ReqAt(r, "bundle")
    /\ \/ /\ bundle' = [bundle EXCEPT ![req[r].node] = "open"]
          /\ ReqBecomes(r, IdleReq)
          /\ UNCHANGED <<code, row, token, made, given, certs>>
       \/ Fail(r)

\* The key under which a device code is stored.
hashDeviceCode(c) == <<"sha256", c>>

\* SetNodeID: dc.DeviceCode is what ClaimAuthorized read from the row.
SetNodeID(r) ==
    LET key == hashDeviceCode(hashDeviceCode(req[r].code))
    IN  /\ ReqAt(r, "record")
        /\ code' = [c \in Codes |-> IF hashDeviceCode(c) = key
                                      THEN [code[c] EXCEPT !.node = req[r].node] ELSE code[c]]
        /\ ReqGoto(r, "reply")
        /\ UNCHANGED <<row, token, bundle, made, given, certs>>

\* The credentials reach the agent, which installs them, or the response is lost.
Deliver(n, h) ==
    /\ given' = [given EXCEPT ![n] = @ + 1]
    /\ certs' = certs \cup {<<n, h>>}

Reply(r) ==
    /\ ReqAt(r, "reply")
    /\ \/ /\ Deliver(req[r].node, req[r].ip)
          /\ ReqBecomes(r, IdleReq)
          /\ UNCHANGED <<code, row, token, bundle, made>>
       \/ Fail(r)

-----------------------------------------------------------------------------
\* Bundles.

\* DownloadBundle: ClaimByToken ...
DownloadBundle(r, n) ==
    /\ ReqAt(r, "idle") /\ bundle[n] = "open"
    /\ bundle' = [bundle EXCEPT ![n] = "none"]
    /\ ReqBecomes(r, State("serve", "download", "none", n, 0))
    /\ UNCHANGED <<code, row, token, made, given, certs>>

\* ... and the tarball, from the row.
ServeBundle(r) ==
    LET n == req[r].node
    IN  /\ ReqAt(r, "serve")
        /\ \/ /\ Exists(n)
              /\ Deliver(n, row[n].ip)
              /\ ReqBecomes(r, IdleReq)
              /\ UNCHANGED <<code, row, token, bundle, made>>
           \/ Fail(r)

ExpireBundle(n) ==
    /\ bundle[n] = "open"
    /\ bundle' = [bundle EXCEPT ![n] = "none"]
    /\ UNCHANGED <<code, row, token, req, made, given, certs>>

-----------------------------------------------------------------------------
\* DeleteNode: "Node will be disconnected from the mesh when its cert expires".
DeleteNode(n) ==
    /\ Exists(n)
    /\ row' = [row EXCEPT ![n].status = "deleted"]
    /\ token' = [token EXCEPT ![n] = "none"]
    /\ UNCHANGED <<code, bundle, req, made, given, certs>>

\* 24 hours without a renewal.
CertExpires(x) ==
    /\ x \in certs
    /\ certs' = certs \ {x}
    /\ UNCHANGED <<code, row, token, bundle, req, made, given>>

-----------------------------------------------------------------------------
Code(c) == RequestCode(c) \/ Authorize(c) \/ Expire(c) \/ DeleteExpired(c)

Begin(r) ==
    \/ \E c \in Codes : Poll(r, c)
    \/ \E n \in Nodes : Enroll(r, n) \/ DownloadBundle(r, n)
    \/ NewNodeRequest(r)

Continue(r) ==
    \/ ClaimAuthorized(r) \/ Load(r) \/ NextNodeIndex(r) \/ OutOfRange(r)
    \/ \E n \in Nodes : Create(r, n)
    \/ CreateFails(r) \/ IssueCert(r) \/ CompleteEnrollment(r) \/ CreateBundle(r)
    \/ SetNodeID(r) \/ Reply(r) \/ ServeBundle(r)

Node(n) == ExpireToken(n) \/ ExpireBundle(n) \/ DeleteNode(n)

EnrollNext ==
    \/ \E c \in Codes : Code(c)
    \/ \E r \in Requests : Begin(r) \/ Continue(r)
    \/ \E n \in Nodes : Node(n)
    \/ \E x \in certs : CertExpires(x)

EnrollSpec == EnrollInit /\ [][EnrollNext]_enrollVars

-----------------------------------------------------------------------------
CodeType == [status : {"none", "pending", "authorized", "completed", "gone"},
             expired : BOOLEAN, node : Nodes \cup {"none"}]

ReqType ==
    [pc : {"idle", "claim", "load", "index", "insert", "issue", "complete", "bundle",
           "record", "reply", "serve"},
     kind : {"none", "poll", "enroll", "create", "join", "bundle", "download"},
     code : Codes \cup {"none"}, node : Nodes \cup {"none"}, ip : 0..MaxHost]

\* Types.
EnrollTypeOK ==
    /\ code \in [Codes -> CodeType]
    /\ row \in [Nodes -> [status : {"fresh", "pending", "enrolled", "deleted"}, ip : 0..MaxHost]]
    /\ token \in [Nodes -> {"none", "open", "expired"}]
    /\ bundle \in [Nodes -> {"none", "open"}]
    /\ req \in [Requests -> ReqType]
    /\ made \in [Codes -> SUBSET Nodes]
    /\ given \in [Nodes -> Nat]
    /\ certs \subseteq Nodes \X (0..MaxHost)

\* The claim "prevents duplicate enrollment": a device code makes at most one node,
\* however many polls for it run at once.
OneNodePerCode == \A c \in Codes : \A m, n \in made[c] : m = n

\* The credentials of a node are handed out at most once: by the poll that made it,
\* the one use of its token, or the one download of its bundle.
GivenOnce == \A n \in Nodes : given[n] <= 1

\* No two nodes of a network have the same address, although it is chosen by one
\* statement and stored by another.
AddressesDiffer ==
    \A m, n \in Nodes : Exists(m) /\ Exists(n) /\ row[m].ip = row[n].ip => m = n

\* The certificate an agent holds is for the address of its row, and a row whose
\* agent holds one is enrolled.
CertMatchesRow ==
    \A x \in certs : Exists(x[1]) => row[x[1]] = [status |-> "enrolled", ip |-> x[2]]

\* Device codes are one-time grants.
CodeState == [c \in Codes |->
    CASE code[c].status = "none" -> "unused"
      [] code[c].status \in {"pending", "authorized"} -> "open"
      [] OTHER -> "spent"]

Shot == INSTANCE OneShot WITH Grants <- Codes, Holders <- Nodes,
                              state <- CodeState, holder <- made

\* The device flow implements the one-time grant.
CodesAreOneShot == Shot!Spec
=============================================================================
