---------------------------- MODULE Connectors ----------------------------
(***************************************************************************)
(* One connector and its operations: the rows, each process's              *)
(* ConnectorRegistry cache, the tools of the MCP server, the admin routes  *)
(* that change them (src/luna_core/routers/connectors.py,                  *)
(* services/connector.py, mcp/builder.py), and the outbound calls with     *)
(* their OAuth2 refreshes and retries (connectors/registry.py, auth.py,    *)
(* oauth2_flow.py, retry.py).                                              *)
(*                                                                         *)
(* The registry is process-local: the admin routes update the cache of     *)
(* Api, every process fills its own at startup.  A call works on its own   *)
(* copy of the decrypted credentials from the moment it starts, and on the *)
(* Connector object it was handed, which may no longer be the cached one.  *)
(***************************************************************************)
EXTENDS Requests

CONSTANTS
  Calls, Ops, Names, Admins, Procs, Api,
  AuthTypes,      \* the AuthType values a run starts with
  CallsOf,        \* per auth type, the <<call, process, kind>> a run makes,
  RequestsOf,     \*   the operations and inputs they are made with,
  AdminsOf,       \*   the kinds of admin request that arrive and how many,
  RestartBudget,  \*   and how often a process restarts
  ProvidersOf,    \*   <<provider rotates, provider sends expires_in, a session
                  \*   factory is wired>> combinations to start from
  Attempts,       \* retry_policy.max_attempts; 1 is no policy
  MaxToken,       \* bound on the tokens the identity provider issues,
  MaxLapsed,      \*   and on those whose expiry passes
  None

\* RetryPolicy refuses max_attempts < 1.
ASSUME ConnectorsAssumption ==
  /\ Api \in Procs /\ Ops # {} /\ Names # {} /\ None \notin Ops \cup Names \cup Calls
  /\ Attempts \in Nat \ {0} /\ MaxLapsed \in Nat
  /\ \A t \in AuthTypes :
       /\ ProvidersOf[t] \subseteq BOOLEAN \X BOOLEAN \X BOOLEAN
       /\ RequestsOf[t] \subseteq [shape : Shapes, in : Inputs, where : {"none", "header", "query"}]

VARIABLES
  auth,     \* connector.auth_type
  req,      \* [shape, in, where] the calls are made with
  sessions, \* a db_session_factory is wired into the registry
  db,       \* [conn, creds, ops]: the connector row and the operation rows
  cache,    \* per process [reg, creds, ops]; reg: the connector is registered
  lock,     \* per process, _refresh_locks[connector.id]
  call,     \* per call, the locals of _execute_http
  adm,      \* per admin request, what it still has to do
  tools,    \* tool name -> operation its handler runs
  idp,      \* the identity provider
  count,    \* [admin, restarts]: admin requests and restarts so far
  hist      \* what happened, for the properties: [stale] a write merged over a copy
            \* with another refresh token than the row's, [dropped] tokens issued and
            \* not stored, [overlap] admin
            \* requests at the same time

vars == <<auth, req, sessions, db, cache, lock, call, adm, tools, idp, count, hist>>
rows == <<db, cache, tools>>

\* The credentials blob: the numbers of its tokens (0 is none), the token
\* whose expires_at it records, and the version of the configuration
\* (token_url, client id and secret); cfg = 0 lacks what a request needs.
Creds(a, r, e, v) == [access |-> a, refresh |-> r, exp |-> e, cfg |-> v]

NoCall == [pc |-> "idle", kind |-> "execute", proc |-> Api, op |-> None,
           cached |-> FALSE, creds |-> Creds(0, 0, 0, 0), got |-> Creds(0, 0, 0, 0),
           used |-> FALSE, left |-> 0, sent |-> 0, why |-> "prepare", res |-> ""]
NoAdmin == [kind |-> "idle", op |-> None, old |-> None, new |-> None,
            creds |-> Creds(0, 0, 0, 0), ops |-> [o \in Ops |-> None]]

Blobs == [access : Nat, refresh : Nat, exp : Nat, cfg : Nat]
Listings == [Ops -> Names \cup {None}]
CallRecords ==
  [pc : {"idle", "prepare", "wait", "refresh", "persist", "send", "done"},
   kind : {"execute", "test", "draft"}, proc : Procs, op : Ops \cup {None},
   cached : BOOLEAN, creds : Blobs, got : Blobs, used : BOOLEAN, left : Nat, sent : Nat,
   why : {"prepare", "force"}, res : {"", "ok", "failed", "error", "raised", "lost"}]
AdminRecords ==
  [kind : {"idle", "create", "update", "delete", "register", "drop", "load", "popup", "exchange"},
   op : Ops \cup {None}, old : Names \cup {None}, new : Names \cup {None},
   creds : Blobs, ops : Listings]

TypeOK ==
  /\ auth \in AuthTypes /\ sessions \in BOOLEAN
  /\ db \in [conn : BOOLEAN, creds : Blobs, ops : Listings]
  /\ cache \in [Procs -> [reg : BOOLEAN, creds : Blobs, ops : Listings]]
  /\ lock \in [Procs -> Calls \cup {None}]
  /\ call \in [Calls -> CallRecords]
  /\ adm \in [Admins -> AdminRecords]
  /\ tools \in [Names -> Ops \cup {None}]
  /\ idp \in [rotates : BOOLEAN, dates : BOOLEAN, issued : Nat, usable : SUBSET Nat,
              lapsed : SUBSET Nat]
  /\ hist \in [stale : BOOLEAN, dropped : BOOLEAN, overlap : BOOLEAN]

-----------------------------------------------------------------------------
(* The registry cache. *)

Unregistered == [reg |-> FALSE, creds |-> Creds(0, 0, 0, 0), ops |-> [o \in Ops |-> None]]

\* load_from_db and build: what a process holds when it has started.
Loaded ==
  IF db.conn THEN [reg |-> TRUE, creds |-> db.creds, ops |-> db.ops] ELSE Unregistered
BuiltTools == [n \in Names |-> IF n \in Range(db.ops)
                               THEN CHOOSE o \in Ops : db.ops[o] = n ELSE None]

\* register(): the given object replaces the cached one, the given operations
\* are added to those already there.  A call in flight keeps the object it was
\* handed (cached says whether that is still the cached one).
Register(r, creds, ops) ==
  [reg |-> TRUE, creds |-> creds,
   ops |-> [o \in Ops |-> IF ops[o] # None THEN ops[o] ELSE r.ops[o]]]

\* _access_token_is_fresh.
Fresh(cr) == cr.access # 0 /\ (cr.exp = 0 \/ cr.exp \notin idp.lapsed)

-----------------------------------------------------------------------------
(* The identity provider (external): the refresh tokens it accepts, and the *)
(* access tokens whose expiry has passed.  The upstream may refuse any      *)
(* access token, whatever its expiry.                                       *)

Init ==
  /\ auth \in AuthTypes
  /\ req \in RequestsOf[auth]
  /\ \E pr \in ProvidersOf[auth] :
       /\ idp = [rotates |-> pr[1], dates |-> pr[2], issued |-> 1, usable |-> {1}, lapsed |-> {}]
       /\ sessions = pr[3]
  /\ db = [conn |-> TRUE, creds |-> Creds(1, 1, IF idp.dates THEN 1 ELSE 0, 1),
           ops |-> [o \in Ops |-> IF o = CHOOSE x \in Ops : TRUE
                                  THEN CHOOSE n \in Names : TRUE ELSE None]]
  /\ cache = [p \in Procs |-> Loaded]
  /\ lock = [p \in Procs |-> None]
  /\ call = [c \in Calls |-> NoCall]
  /\ adm = [a \in Admins |-> NoAdmin]
  /\ tools = BuiltTools
  /\ count = [admin |-> 0, restarts |-> 0]
  /\ hist = [stale |-> FALSE, dropped |-> FALSE, overlap |-> FALSE]

\* The clock passes the expiry (less _REFRESH_LEEWAY) of a token.
Lapse(t) ==
  /\ auth = "oauth2" /\ t <= idp.issued /\ t \notin idp.lapsed
  /\ idp' = [idp EXCEPT !.lapsed = @ \cup {t}]
  /\ UNCHANGED <<auth, req, sessions, rows, lock, call, adm, count, hist>>

\* The provider grants a token for the given refresh token (0: client
\* credentials), and rotates the refresh token if it does that.
CanIssue(r) == idp.issued < MaxToken /\ (r = 0 \/ r \in idp.usable)
Issue(r) ==
  LET n == idp.issued + 1
      rotated == idp.rotates /\ r # 0
  IN idp' = [idp EXCEPT !.issued = n,
                        !.usable = IF rotated THEN (@ \ {r}) \cup {n} ELSE @]

\* Seeded fault: a rotated refresh token is not taken from the answer.
PatchedKeepingRefresh(cr) ==
  [cr EXCEPT !.access = idp.issued + 1,
             !.exp = IF idp.dates THEN idp.issued + 1 ELSE @]

\* The patch _oauth2_refresh returns, merged over the caller's copy: an answer
\* without expires_in leaves the old expires_at in place.
Patched(cr) ==
  [cr EXCEPT !.access = idp.issued + 1,
             !.refresh = IF idp.rotates /\ cr.refresh # 0 THEN idp.issued + 1 ELSE @,
             !.exp = IF idp.dates THEN idp.issued + 1 ELSE @]

-----------------------------------------------------------------------------
(* Outbound calls. *)

Quiet == UNCHANGED <<auth, req, sessions, adm, tools, count>>
Step(c, rec) == call' = [call EXCEPT ![c] = rec]
\* The call returns or raises: its locals are gone.
Done(cl, res) ==
  [NoCall EXCEPT !.pc = "done", !.res = res, !.proc = cl.proc, !.sent = cl.sent, !.used = cl.used]
Ends(c, res) == Step(c, Done(call[c], res))

\* perform and perform_draft: the call gets its own copy of the credentials,
\* and a missing path parameter raises.
Begin(c, p, o, kind, own) ==
  /\ <<c, p, kind>> \in CallsOf[auth] /\ call[c].pc = "idle"
  /\ Step(c, IF PathFails(req.shape, req.in) THEN Done(NoCall, "raised")
             ELSE [NoCall EXCEPT !.pc = "prepare", !.kind = kind, !.proc = p, !.op = o,
                     !.cached = kind # "draft", !.creds = own, !.left = Attempts - 1])
  /\ Quiet /\ UNCHANGED <<db, cache, lock, idp, hist>>

\* execute, for a flow or an agent in any process.
Execute(c, p, o) == cache[p].ops[o] # None /\ Begin(c, p, o, "execute", cache[p].creds)

\* test_op, once ensure_registered has done its part.
TestOperation(c, o) == cache[Api].ops[o] # None /\ Begin(c, Api, o, "test", cache[Api].creds)

\* test_op_draft: the cached credentials if there are any, but the Connector
\* object of the request, not the cached one.
TestDraft(c) ==
  /\ db.conn
  /\ Begin(c, Api, None, "draft", IF cache[Api].reg THEN cache[Api].creds ELSE db.creds)

\* _prepare_api_key and _prepare_basic only need their credentials.
PrepareStatic(cr) == IF cr.cfg = 0 THEN "done" ELSE "send"

\* _prepare_oauth2 needs a fresh token, or what it takes to get one.
PrepareOAuth2(cr) == IF Fresh(cr) THEN "send" ELSE IF cr.cfg = 0 THEN "done" ELSE "wait"

\* prepare().
Prepare(c) ==
  /\ call[c].pc = "prepare"
  /\ LET cr == call[c].creds
         to == CASE auth = "none" -> "send"
                 [] auth = "oauth2" -> PrepareOAuth2(cr)
                 [] OTHER -> PrepareStatic(cr)
     IN Step(c, IF to = "done" THEN Done(call[c], "error")
                ELSE [call[c] EXCEPT !.pc = to, !.why = "prepare"])
  /\ Quiet /\ UNCHANGED <<db, cache, lock, idp, hist>>

\* async with lock: _prepare_oauth2 looks at its copy again, force_refresh
\* does not.
Acquire(c) ==
  /\ call[c].pc = "wait" /\ lock[call[c].proc] = None
  /\ IF call[c].why = "prepare" /\ Fresh(call[c].creds)
     THEN Step(c, [call[c] EXCEPT !.pc = "send"]) /\ UNCHANGED lock
     ELSE /\ Step(c, [call[c] EXCEPT !.pc = "refresh"])
          /\ lock' = [lock EXCEPT ![call[c].proc] = c]
  /\ Quiet /\ UNCHANGED <<db, cache, idp, hist>>

\* Where a call goes on with new tokens.  Only force_refresh_oauth2 hands them
\* to the call; those of prepare() are in the headers of the next request and
\* nowhere else, and the next attempt is prepared from the old ones again.
Renewed(cl) ==
  IF cl.why = "prepare" THEN [cl EXCEPT !.pc = "send", !.got = NoCall.got]
  ELSE [cl EXCEPT !.pc = "prepare", !.used = TRUE, !.creds = cl.got, !.got = NoCall.got]

\* Leaving the async with, by return or by exception.
Unlocked(c) == [lock EXCEPT ![call[c].proc] = None]

\* With a session factory the tokens are stored before they are used: at once in
\* the object the call holds (InObject), and then in the row.  Without one they
\* are only used: _prepare_oauth2 hands them back in
\* refreshed_credentials, which _persist_refreshed_credentials then drops, and
\* force_refresh does not even that.
Stored(cl) == IF sessions THEN [cl EXCEPT !.pc = "persist"] ELSE Renewed(cl)

\* The head of _persist_credentials, before its first await.  The cache sees it
\* only if that object is still the cached one, and its other calls then start
\* from tokens the row does not have yet.
InObject(cl) ==
  IF sessions /\ cl.cached THEN [cache EXCEPT ![cl.proc].creds = Patched(cl.creds)] ELSE cache

\* _oauth2_refresh gets its tokens.
RefreshGranted(c) ==
  /\ call[c].pc = "refresh" /\ CanIssue(call[c].creds.refresh)
  /\ Issue(call[c].creds.refresh)
  /\ Step(c, Stored([call[c] EXCEPT !.got = Patched(call[c].creds)]))
  /\ lock' = Unlocked(c)
  /\ cache' = InObject(call[c])
  /\ hist' = [hist EXCEPT !.dropped = @ \/ ~sessions]
  /\ Quiet /\ UNCHANGED db

\* The provider answers with an error, which is an auth error of the call; or
\* it cannot be reached, which no handler catches, and which may come after
\* the provider has issued the tokens.
RefreshFails(c) ==
  /\ call[c].pc = "refresh"
  /\ \/ Ends(c, "error") /\ UNCHANGED <<idp, hist>>
     \/ Ends(c, "raised") /\ UNCHANGED <<idp, hist>>
     \/ /\ Ends(c, "raised") /\ CanIssue(call[c].creds.refresh)
        /\ Issue(call[c].creds.refresh) /\ hist' = [hist EXCEPT !.dropped = TRUE]
  /\ lock' = Unlocked(c)
  /\ Quiet /\ UNCHANGED <<db, cache>>

\* The rest of _persist_credentials: the row.  A failed commit raises with the
\* object already changed.
Persist(c) ==
  /\ call[c].pc = "persist"
  /\ \/ /\ db' = IF db.conn THEN [db EXCEPT !.creds = call[c].got] ELSE db
        /\ hist' = [hist EXCEPT !.stale = @ \/ db.creds.refresh # call[c].creds.refresh]
        /\ Step(c, Renewed(call[c]))
     \/ /\ UNCHANGED db
        /\ hist' = [hist EXCEPT !.dropped = TRUE]
        /\ Ends(c, "raised")
  /\ Quiet /\ UNCHANGED <<cache, lock, idp>>

\* What the caller of a call sees: perform and perform_draft return every
\* status, execute raises on an error, and raises too if the operation it
\* looks up again has gone.
Returned(cl, st) ==
  CASE cl.kind # "execute" -> IF st = "ok" THEN "ok" ELSE "failed"
    [] cache[cl.proc].ops[cl.op] = None -> "raised"
    [] OTHER -> IF st = "ok" THEN "ok" ELSE "error"

\* Seeded fault: the refresh-and-retry is not marked as used.
RenewOnceNever(cl) == auth = "oauth2"

\* oauth2_refresh_used: one refresh-and-retry per call.
RenewOnce(cl) == auth = "oauth2" /\ ~cl.used

\* force_refresh_oauth2 does not look at expires_at.
ForceRefresh(cl) ==
  IF cl.creds.cfg = 0 THEN Done(cl, "error") ELSE [cl EXCEPT !.pc = "wait", !.why = "force"]

\* RetryPolicy.should_retry, on what parse_retry_policy made of the row.
ShouldRetry(cl, st) == st = "transient" /\ cl.left > 0

\* An oauth2 call that is refused renews its tokens once; a status on the retry
\* list is tried again while the policy has attempts left.
Answered(cl, st) ==
  CASE st = "auth" /\ RenewOnce(cl) -> ForceRefresh(cl)
    [] ShouldRetry(cl, st) -> [cl EXCEPT !.pc = "prepare", !.left = @ - 1]
    [] OTHER -> Done(cl, Returned(cl, st))

\* One attempt: the request (Build) is sent and the upstream answers.
Attempt(c, st) ==
  /\ call[c].pc = "send"
  /\ Step(c, Answered([call[c] EXCEPT !.sent = @ + 1], st))
  /\ Quiet /\ UNCHANGED <<db, cache, lock, idp, hist>>

-----------------------------------------------------------------------------
(* Admin requests, in the API process: each commits its rows, and once the *)
(* commit has returned brings the registry and the MCP server up to date.  *)

\* The slots are interchangeable: a request takes any idle one.
Arrive(a, rec) ==
  /\ adm[a].kind = "idle" /\ a = CHOOSE b \in Admins : adm[b].kind = "idle"
  /\ count.admin < AdminsOf[auth].max
  /\ rec.kind \in AdminsOf[auth].kinds
  /\ adm' = [adm EXCEPT ![a] = rec]
  /\ count' = [count EXCEPT !.admin = @ + 1]
  /\ hist' = [hist EXCEPT !.overlap = @ \/ \E b \in Admins \ {a} : adm[b].kind # "idle"]
  /\ UNCHANGED <<auth, req, sessions, lock, call, tools>>

\* create_operation; the name is unique within the connector.
CreateOperation(a, o, n) ==
  /\ db.conn /\ db.ops[o] = None /\ n \notin Range(db.ops)
  /\ db' = [db EXCEPT !.ops[o] = n]
  /\ Arrive(a, [NoAdmin EXCEPT !.kind = "create", !.op = o, !.new = n])
  /\ UNCHANGED <<cache, idp>>

\* update_operation; the hook gets the previous name and the current row.
UpdateOperation(a, o, n) ==
  /\ db.ops[o] # None /\ n \notin Range(db.ops) \ {db.ops[o]}
  /\ db' = [db EXCEPT !.ops[o] = n]
  /\ Arrive(a, [NoAdmin EXCEPT !.kind = "update", !.op = o, !.old = db.ops[o],
                !.new = n, !.creds = db.creds])
  /\ UNCHANGED <<cache, idp>>

\* delete_operation.
DeleteOperation(a, o) ==
  /\ db.ops[o] # None
  /\ db' = [db EXCEPT !.ops[o] = None]
  /\ Arrive(a, [NoAdmin EXCEPT !.kind = "delete", !.op = o, !.old = db.ops[o]])
  /\ UNCHANGED <<cache, idp>>

\* update_connector: a credentials field in the patch replaces the whole blob,
\* tokens included; then the operations are listed for register().
UpdateConnector(a, v) ==
  /\ db.conn
  /\ db' = IF v = None THEN db ELSE [db EXCEPT !.creds = Creds(0, 0, 0, v)]
  /\ Arrive(a, [NoAdmin EXCEPT !.kind = "register", !.creds = db'.creds, !.ops = db.ops])
  /\ UNCHANGED <<cache, idp>>

\* delete_connector: the rows cascade, the names were read before.
DeleteConnector(a) ==
  /\ db.conn
  /\ db' = [db EXCEPT !.conn = FALSE, !.ops = [o \in Ops |-> None]]
  /\ Arrive(a, [NoAdmin EXCEPT !.kind = "drop", !.ops = db.ops])
  /\ UNCHANGED <<cache, idp>>

\* ensure_registered, before a test call: the row is read when the operation
\* is not cached.
EnsureRegistered(a, o) ==
  /\ db.ops[o] # None /\ cache[Api].ops[o] = None
  /\ Arrive(a, [NoAdmin EXCEPT !.kind = "register", !.creds = db.creds,
                !.ops = [x \in Ops |-> IF x = o THEN db.ops[o] ELSE None]])
  /\ UNCHANGED <<db, cache, idp>>

\* load_from_db on a live registry: it is emptied, then the rows are read.
Reload(a) ==
  /\ db.conn
  /\ cache' = [cache EXCEPT ![Api] = Unregistered]
  /\ Arrive(a, [NoAdmin EXCEPT !.kind = "load", !.creds = db.creds, !.ops = db.ops])
  /\ UNCHANGED <<db, idp>>

\* oauth2_start mints a state token that names the connector.
OAuth2Start(a) ==
  /\ auth = "oauth2" /\ db.conn /\ db.creds.cfg # 0
  /\ Arrive(a, [NoAdmin EXCEPT !.kind = "popup"])
  /\ UNCHANGED <<db, cache, idp>>

Goes(a, rec) ==
  /\ adm' = [adm EXCEPT ![a] = rec]
  /\ UNCHANGED <<auth, req, sessions, lock>>

\* oauth2_callback: verify_state gives the connector, its credentials are
\* read, and the code is exchanged.  Nothing records a state token: one that
\* is posted again is another handshake.
OAuth2Callback(a) ==
  /\ adm[a].kind = "popup"
  /\ Goes(a, IF db.conn /\ db.creds.cfg # 0
             THEN [NoAdmin EXCEPT !.kind = "exchange", !.creds = db.creds] ELSE NoAdmin)
  /\ UNCHANGED <<rows, call, idp, count, hist>>

\* exchange_code_for_tokens opens a new grant, merged over the credentials
\* read before it; a row deleted meanwhile fails the commit.
Exchange(a) ==
  /\ adm[a].kind = "exchange"
  /\ \/ /\ CanIssue(0)
        /\ LET n == idp.issued + 1
               new == [adm[a].creds EXCEPT !.access = n, !.refresh = n,
                                           !.exp = IF idp.dates THEN n ELSE @]
           IN /\ idp' = [idp EXCEPT !.issued = n,
                                    !.usable = @ \cup {n}]
              /\ db' = IF db.conn THEN [db EXCEPT !.creds = new] ELSE db
              /\ Goes(a, IF ~db.conn THEN NoAdmin
                         ELSE [NoAdmin EXCEPT !.kind = "register", !.creds = new, !.ops = db.ops])
     \/ Goes(a, NoAdmin) /\ UNCHANGED <<db, idp>>
  /\ UNCHANGED <<cache, call, tools, count, hist>>

\* The hook of a request has run: it set the API process's registry and tools.
Hooked(a, k, reg, tls) ==
  /\ adm[a].kind = k
  /\ cache' = [cache EXCEPT ![Api] = reg]
  /\ tools' = tls
  /\ call' = [c \in Calls |-> IF k \notin {"create", "delete"} /\ call[c].proc = Api
                              THEN [call[c] EXCEPT !.cached = FALSE] ELSE call[c]]
  /\ Goes(a, NoAdmin)
  /\ UNCHANGED <<db, idp, count, hist>>

\* attach_operation and detach, on the tools by name.
Attach(tls, n, o) == [tls EXCEPT ![n] = o]
Detach(tls, ns) == [n \in Names |-> IF n \in ns THEN None ELSE tls[n]]

\* add_operation: the tool is attached; the registry is left alone.
OnCreated(a) == Hooked(a, "create", cache[Api], Attach(tools, adm[a].new, adm[a].op))

\* Seeded fault: the old name of a renamed operation stays attached.
ReattachedKeepingOld(a) == Attach(tools, adm[a].new, adm[a].op)

\* A renamed operation loses its old tool, then gets the new one.
Reattached(a) == Attach(Detach(tools, {adm[a].old}), adm[a].new, adm[a].op)

\* update_op: the operation is registered with the request's connector.
OnUpdated(a) ==
  Hooked(a, "update",
         Register(cache[Api], adm[a].creds,
                  [o \in Ops |-> IF o = adm[a].op THEN adm[a].new ELSE None]),
         Reattached(a))

\* destroy_op.
OnDeleted(a) ==
  Hooked(a, "delete", [cache[Api] EXCEPT !.ops[adm[a].op] = None], Detach(tools, {adm[a].old}))

\* destroy: the connector and all its operations go.
OnConnectorDeleted(a) == Hooked(a, "drop", Unregistered, Detach(tools, Range(adm[a].ops)))

\* update, oauth2_callback and ensure_registered end in register().
OnRegister(a) == Hooked(a, "register", Register(cache[Api], adm[a].creds, adm[a].ops), tools)

\* load_from_db puts new buckets in the place of whatever came in meanwhile.
OnLoaded(a) == Hooked(a, "load", Register(Unregistered, adm[a].creds, adm[a].ops), tools)

\* A process dies and starts again: its calls and requests are gone, its
\* registry and its tools are built from the rows.
Restart(p) ==
  /\ count.restarts < RestartBudget[auth]
  /\ count' = [count EXCEPT !.restarts = @ + 1]
  /\ cache' = [cache EXCEPT ![p] = Loaded]
  /\ lock' = [lock EXCEPT ![p] = None]
  /\ tools' = IF p = Api THEN BuiltTools ELSE tools
  /\ adm' = IF p = Api THEN [a \in Admins |-> NoAdmin] ELSE adm
  /\ call' = [c \in Calls |->
       IF call[c].proc = p /\ call[c].pc \notin {"idle", "done"}
       THEN Done(call[c], "lost") ELSE call[c]]
  /\ hist' = [hist EXCEPT !.dropped = @ \/ \E c \in Calls :
                                            call[c].proc = p /\ call[c].pc = "persist"]
  /\ UNCHANGED <<auth, req, sessions, db, idp>>

-----------------------------------------------------------------------------

Runs(c) ==
  \/ Prepare(c) \/ Acquire(c) \/ RefreshGranted(c) \/ RefreshFails(c) \/ Persist(c)
  \/ \E st \in {"ok", "auth", "transient", "failed", "transport"} : Attempt(c, st)

Next ==
  \/ \E t \in 1..MaxLapsed : Lapse(t)
  \/ \E c \in Calls, p \in Procs, o \in Ops : Execute(c, p, o)
  \/ \E c \in Calls, o \in Ops : TestOperation(c, o)
  \/ \E c \in Calls : TestDraft(c)
  \/ \E c \in Calls : Runs(c)
  \/ \E a \in Admins, o \in Ops, n \in Names : CreateOperation(a, o, n) \/ UpdateOperation(a, o, n)
  \/ \E a \in Admins, o \in Ops : DeleteOperation(a, o) \/ EnsureRegistered(a, o)
  \/ \E a \in Admins, v \in (IF auth = "oauth2" THEN {None, 0, 2} ELSE {None}) : UpdateConnector(a, v)
  \/ \E a \in Admins : DeleteConnector(a) \/ Reload(a) \/ OAuth2Start(a) \/ OAuth2Callback(a) \/ Exchange(a)
  \/ \E a \in Admins :
       \/ OnCreated(a) \/ OnUpdated(a) \/ OnDeleted(a) \/ OnConnectorDeleted(a)
       \/ OnRegister(a) \/ OnLoaded(a)
  \/ \E p \in Procs : Restart(p)

Spec == Init /\ [][Next]_vars

-----------------------------------------------------------------------------

(* Calls of several processes refresh one grant, each from its own copy, one
   call several times from the same copy, and the others of its process from
   tokens it has not stored yet.  When every answer of the provider has been
   stored, the row holds a refresh token the provider still accepts.  The
   exceptions: an answer was dropped (a failed commit, a lost answer, a
   restart, no session factory), or one was merged over a copy with another
   refresh token than the row's, as when two commits of one process change
   places. *)
StoredGrantIsUsable ==
  /\ db.conn /\ ~hist.stale /\ ~hist.dropped
  /\ \A c \in Calls : call[c].pc # "persist"
  => db.creds.refresh \in {0} \cup idp.usable

(* The two retry budgets of _execute_http do not multiply: a call sends at
   most max_attempts requests, and one more after its only forced refresh. *)
AttemptsAreBounded ==
  \A c \in Calls : call[c].sent <= Attempts + (IF call[c].used THEN 1 ELSE 0)

(* After admin requests that did not overlap, whatever calls, reloads and
   restarts ran between them, the API process's registry and MCP server hold
   no operation the rows no longer have under that name. *)
NothingOutlivesItsRow ==
  ~hist.overlap /\ (\A a \in Admins : adm[a].kind = "idle") =>
    /\ cache[Api].reg => db.conn
    /\ \A o \in Ops : cache[Api].ops[o] # None => cache[Api].ops[o] = db.ops[o]
    /\ \A n \in Names : tools[n] # None => db.ops[tools[n]] = n

(* A value of the caller is sent in one place: what the path consumed, what
   `in` sent elsewhere and what the body template took are not repeated at
   the root of the body ("the double-write trap" of _execute_http); and a
   header of the authenticator is never the caller's. *)
RequestIsWellPlaced ==
  (\E c \in Calls : call[c].sent > 0) =>
    LET wire == Build(req.shape, req.in, req.where)
        fromCaller == {"input", "null", "default"}
        at(f) == {k \in DOMAIN f : f[k] \in fromCaller}
    IN /\ \A k \in Key : Cardinality({f \in {"path", "headers", "params"} : k \in at(wire[f])})
                         + (IF k \in at(wire.body.root) THEN 1 ELSE 0) <= 1
       /\ at(wire.body.root) \cap DOMAIN wire.body.template = {}
       /\ req.where = "header" => wire.headers[AuthKey] = "secret"

(* The comment on _refresh_locks: "Per-connector locks gate parallel OAuth2
   refreshes so two concurrent requests don't both hit the IdP and persist
   clobbering token blobs".  Unless an answer was dropped, a call of the only
   process never starts with a refresh token that a sibling has already used. *)
SiblingsShareOneRefresh ==
  ~hist.dropped =>
    \A c \in Calls : call[c].pc = "refresh" /\ call[c].sent = 0 =>
                      call[c].creds.refresh \in {0} \cup idp.usable

(* Refuted by Connectors_retry.cfg: a call that is alone presents a refresh
   token once.  Its second attempt is prepared from the credentials the first
   one was, and with a provider that rotates it is refused. *)
CallKeepsItsTokens ==
  ~hist.dropped =>
    \A c \in Calls : call[c].pc = "refresh" =>
                      call[c].creds.refresh \in {0} \cup idp.usable

(* Refuted by Connectors_commits.cfg: StoredGrantIsUsable without its exception
   for a merge over an outdated copy. *)
EveryGrantIsUsable ==
  /\ db.conn /\ ~hist.dropped
  /\ \A c \in Calls : call[c].pc # "persist"
  => db.creds.refresh \in {0} \cup idp.usable
=============================================================================
