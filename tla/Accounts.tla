------------------------------ MODULE Accounts ------------------------------
(***************************************************************************)
(* internal/api/auth.go and auth_oauth.go with their stores: users who     *)
(* register with a password, users who come from GitHub, and both at once  *)
(* for the same address; the sessions all of them get, and their end.      *)
(***************************************************************************)
EXTENDS Naturals

CONSTANTS
  Emails,      \* addresses, positive numbers
  GitHub,      \* GitHub accounts
  Logins,      \* login names at GitHub, numbers; an account may change its own
  Reqs         \* requests, each runs once; a request's number is its user's id and its token

VARIABLES
  users,     \* the rows: id, email, github id (0 for none), has a password
  req,       \* the requests
  sess,      \* sessions by token
  home,      \* home[g]: the user GitHub account g was first logged in as
  displaced  \* GitHub accounts whose user was linked to another GitHub account since

vars == <<users, req, sess, home, displaced>>

NoReq == [kind |-> "none", pc |-> "idle", email |-> 0, gh |-> 0, uid |-> 0]
NoSess == [live |-> FALSE, expired |-> FALSE, uid |-> 0, gh |-> 0]

\* The address made up from the login name of an account that reports none.
NoReply(l) == 100 + l
\* What GitHub reports at a login: an address, or 0 for none (the account hides it, or the
\* request for it failed).
Reported == Emails \cup {0}

Addresses == Emails \cup {NoReply(l) : l \in Logins}

\* The shape of the state; one row per address and per GitHub account, and every
\* session has its user.
TypeOK ==
  /\ users \subseteq [id : Reqs, email : Addresses, gh : GitHub \cup {0}, pw : BOOLEAN]
  /\ \A u, v \in users :
       u.id = v.id \/ u.email = v.email \/ (u.gh = v.gh /\ u.gh # 0) => u = v
  /\ req \in [Reqs -> [kind : {"none", "register", "login", "oauth"},
                       pc : {"idle", "create", "email", "link", "session", "over"},
                       email : Addresses \cup {0}, gh : GitHub \cup {0}, uid : Reqs \cup {0}]]
  /\ sess \in [Reqs -> [live : BOOLEAN, expired : BOOLEAN, uid : Reqs \cup {0}, gh : GitHub \cup {0}]]
  /\ home \in [GitHub -> Reqs \cup {0}] /\ displaced \subseteq GitHub
  /\ \A t \in Reqs : sess[t].live => \E u \in users : u.id = sess[t].uid

Init ==
  /\ users = {} /\ req = [r \in Reqs |-> NoReq] /\ sess = [t \in Reqs |-> NoSess]
  /\ home = [g \in GitHub |-> 0] /\ displaced = {}

----------------------------------------------------------------------------
\* The user table.

ByEmail(e) == {u \in users : u.email = e}
ByGitHub(g) == {u \in users : u.gh = g}

\* A plausible bug: uniqueness of the GitHub account is left to the lookup.
InsertAllowedUnchecked(e, g) == TRUE

\* The UNIQUE constraints on email and github_id.
InsertAllowed(e, g) == ByEmail(e) = {} /\ (g # 0 => ByGitHub(g) = {})

Over(r) == [req EXCEPT ![r] = [NoReq EXCEPT !.pc = "over"]]
Goto(r, pc, uid) == [req EXCEPT ![r].pc = pc, ![r].uid = uid]

----------------------------------------------------------------------------
\* Passwords.

\* Register looks the address up, hashes for a while, and inserts later.
Register(r, e) ==
  /\ req[r].pc = "idle"
  /\ req' = IF ByEmail(e) # {} THEN Over(r)
            ELSE [req EXCEPT ![r] = [NoReq EXCEPT !.kind = "register", !.pc = "create", !.email = e]]
  /\ UNCHANGED <<users, sess, home, displaced>>

\* Login with the right password; a row made by GitHub has none.
Login(r, e) ==
  /\ req[r].pc = "idle"
  /\ \E u \in ByEmail(e) :
       /\ u.pw
       /\ req' = [req EXCEPT ![r] = [NoReq EXCEPT !.kind = "login", !.pc = "session", !.uid = u.id]]
  /\ UNCHANGED <<users, sess, home, displaced>>

----------------------------------------------------------------------------
\* GitHub.  StartGitHub and the callback's checks of the state cookie and of GitHub's
\* answers come before; any of them failing ends the request.

\* findOrCreateUser: by GitHub id ...
CallbackGitHub(r, g) ==
  /\ req[r].pc = "idle"
  /\ LET q == [NoReq EXCEPT !.kind = "oauth", !.gh = g] IN
     IF ByGitHub(g) = {} THEN req' = [req EXCEPT ![r] = [q EXCEPT !.pc = "email"]]
     ELSE \E u \in ByGitHub(g) :
            req' = [req EXCEPT ![r] = [q EXCEPT !.pc = "session", !.uid = u.id]]
  /\ UNCHANGED <<users, sess, home, displaced>>

\* ... then by the address GitHub reports at this login; without one the address is made up.
FindByEmail(r, e, login) ==
  /\ req[r].pc = "email"
  /\ IF e # 0 /\ ByEmail(e) # {}
     THEN \E u \in ByEmail(e) : req' = Goto(r, "link", u.id)
     ELSE req' = [req EXCEPT ![r].pc = "create",
                             ![r].email = IF e = 0 THEN NoReply(login) ELSE e]
  /\ UNCHANGED <<users, sess, home, displaced>>

\* The GitHub accounts that lose their user when g is linked to user id.
Displaced(id, g) == {u.gh : u \in {v \in users : v.id = id}} \ {0, g}

\* SetGitHubID, which the constraint refuses when another row has the id; a link the row
\* already has is overwritten.
SetGitHubID(r) ==
  LET g == req[r].gh
      id == req[r].uid
  IN
  /\ req[r].pc = "link"
  /\ IF \E u \in ByGitHub(g) : u.id # id
     THEN req' = Over(r) /\ UNCHANGED <<users, displaced>>
     ELSE /\ users' = {IF u.id = id THEN [u EXCEPT !.gh = g] ELSE u : u \in users}
          /\ displaced' = displaced \cup Displaced(id, g)
          /\ req' = Goto(r, "session", id)
  /\ UNCHANGED <<sess, home>>

\* Users.Create at the end of Register and of findOrCreateUser.
Create(r) ==
  LET q == req[r] IN
  /\ q.pc = "create"
  /\ IF InsertAllowed(q.email, q.gh)
     THEN /\ users' = users \cup {[id |-> r, email |-> q.email, gh |-> q.gh, pw |-> q.kind = "register"]}
          /\ req' = Goto(r, "session", r)
     ELSE req' = Over(r) /\ UNCHANGED users
  /\ UNCHANGED <<sess, home, displaced>>

----------------------------------------------------------------------------
\* Sessions.

\* SessionStore.Create.
NewSession(r) == [NoSess EXCEPT !.live = TRUE, !.uid = req[r].uid, !.gh = req[r].gh]

\* Sessions.Create and the cookie; it may fail and leave the account without a session.
MintSession(r, ok) ==
  LET g == req[r].gh IN
  /\ req[r].pc = "session"
  /\ sess' = IF ok THEN [sess EXCEPT ![r] = NewSession(r)] ELSE sess
  /\ home' = IF ok /\ g # 0 /\ home[g] = 0 THEN [home EXCEPT ![g] = req[r].uid] ELSE home
  /\ req' = Over(r)
  /\ UNCHANGED <<users, displaced>>

Valid(t) == sess[t].live /\ ~sess[t].expired

\* RequireAuth: the header's token if there is one, else the cookie's.
RequireAuth(header, cookie) ==
  LET by == IF header # 0 THEN header ELSE cookie IN by # 0 /\ Valid(by)

\* Logout deletes the cookie's session if there is one, else the header's.
Logout(header, cookie) ==
  /\ RequireAuth(header, cookie)
  /\ sess' = [sess EXCEPT ![IF cookie # 0 THEN cookie ELSE header] = NoSess]
  /\ UNCHANGED <<users, req, home, displaced>>

ExpireSession(t) ==
  /\ Valid(t) /\ sess' = [sess EXCEPT ![t].expired = TRUE]
  /\ UNCHANGED <<users, req, home, displaced>>

DeleteExpired ==
  /\ \E t \in Reqs : sess[t].expired
  /\ sess' = [t \in Reqs |-> IF sess[t].expired THEN NoSess ELSE sess[t]]
  /\ UNCHANGED <<users, req, home, displaced>>

----------------------------------------------------------------------------
Next ==
  \/ \E r \in Reqs, e \in Emails : Register(r, e) \/ Login(r, e)
  \/ \E r \in Reqs, g \in GitHub : CallbackGitHub(r, g)
  \/ \E r \in Reqs, e \in Reported, login \in Logins : FindByEmail(r, e, login)
  \/ \E r \in Reqs : SetGitHubID(r) \/ Create(r)
  \/ \E r \in Reqs, ok \in BOOLEAN : MintSession(r, ok)
  \/ \E header, cookie \in Reqs \cup {0} : Logout(header, cookie)
  \/ \E t \in Reqs : ExpireSession(t)
  \/ DeleteExpired

Spec == Init /\ [][Next]_vars

----------------------------------------------------------------------------
\* A GitHub account always arrives in the same hopssh account, also when its first
\* logins run in two tabs or race with a registration of the same address, and whatever
\* address and login name GitHub reports each time, for as long as no other GitHub
\* account has reported the address of that hopssh account and taken its link over
\* (findOrCreateUser's lookups, SetGitHubID, the UNIQUE constraints).
SameAccount ==
  \A t \in Reqs :
    sess[t].live /\ sess[t].gh # 0 /\ sess[t].gh \notin displaced =>
      sess[t].uid = home[sess[t].gh]

=============================================================================
