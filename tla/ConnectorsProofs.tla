-------------------------- MODULE ConnectorsProofs --------------------------
(***************************************************************************)
(* Proofs about Connectors, for any calls, processes, operations, names,   *)
(* admin requests and retry policies: the retry budgets do not multiply,   *)
(* the stored grant stays usable, nothing the rows dropped survives in the *)
(* API process, and a value is sent in one place.                          *)
(***************************************************************************)
EXTENDS Connectors, FiniteSetTheorems, TLAPS

\* The requests a call has sent and may still send add up to its policy's, one
\* more from the moment it decided on its forced refresh.
Forced(cl) == cl.why = "force" /\ cl.pc \in {"wait", "refresh", "persist"}

Budgeted(cl) ==
  /\ cl.pc \in {"prepare", "wait", "refresh", "persist", "send"} =>
       cl.sent + cl.left = (Attempts - 1) + (IF cl.used \/ Forced(cl) THEN 1 ELSE 0)
  /\ Forced(cl) => ~cl.used
  /\ cl.sent <= Attempts + (IF cl.used THEN 1 ELSE 0)

BudgetInv == \A c \in Calls : Budgeted(call[c])

\* The copies of the credentials: the row's, the caches', those of the calls with
\* what they are about to store, and those of the requests.
Shared ==
  {db.creds} \cup {cache[p].creds : p \in Procs} \cup {adm[a].creds : a \in Admins}

Copies == Shared \cup {call[c].creds : c \in Calls} \cup {call[c].got : c \in Calls}

Usable(cr) == cr.refresh \in {0} \cup idp.usable

Storing(c) == call[c].pc = "persist"

\* A provider that does not rotate goes on accepting what it issued.  With one
\* that rotates, what a call is about to store is not in the row yet, and no
\* other call is about to store it.
HeldInv ==
  /\ \A x \in Copies : x.refresh <= idp.issued
  /\ ~idp.rotates => \A x \in Copies : Usable(x)
  /\ idp.rotates =>
       \A c \in Calls : Storing(c) /\ call[c].got.refresh # 0 =>
         /\ call[c].got.refresh # db.creds.refresh
         /\ \A d \in Calls \ {c} : Storing(d) => call[d].got.refresh # call[c].got.refresh

\* The provider accepts a token, or a call that has used it is about to store
\* what came of it.
Linked(r) ==
  \/ r \in {0} \cup idp.usable
  \/ \E c \in Calls : Storing(c) /\ call[c].creds.refresh = r

\* The tokens form a chain: every one is accepted, or its successor is on the way.
ChainInv ==
  idp.rotates /\ db.conn /\ ~hist.stale /\ ~hist.dropped =>
    /\ Linked(db.creds.refresh)
    /\ \A c \in Calls : Storing(c) => Linked(call[c].got.refresh)

GrantInv == HeldInv /\ ChainInv

\* The admin request that is at work, if there was never more than one.
OneAtATime ==
  ~hist.overlap => \A a, b \in Admins : adm[a].kind # "idle" /\ adm[b].kind # "idle" => a = b

\* Operations of a connector have different names and go with it.
RowsInv ==
  /\ \A o, q \in Ops : db.ops[o] = db.ops[q] /\ db.ops[o] # None => o = q
  /\ ~db.conn => \A o \in Ops : db.ops[o] = None

\* What the registry entry and the MCP server hold is in the rows.
Current(conn, ops, reg, held, tls) ==
  /\ reg => conn
  /\ \A o \in Ops : held[o] # None => held[o] = ops[o]
  /\ \A n \in Names : tls[n] # None => ops[tls[n]] = n

\* What may be behind while a request is between its commit and its hook.
Behind(r, conn, ops, reg, held, tls) ==
  \/ /\ r.kind \in {"idle", "popup", "exchange"}
     /\ Current(conn, ops, reg, held, tls)
  \/ /\ r.kind = "create"
     /\ Current(conn, ops, reg, held, tls)
     /\ r.op \in Ops /\ r.new \in Names /\ ops[r.op] = r.new
  \/ /\ r.kind \in {"register", "load"}
     /\ Current(conn, ops, reg, held, tls)
     /\ conn /\ \A o \in Ops : r.ops[o] # None => r.ops[o] = ops[o]
  \/ /\ r.kind \in {"update", "delete"}
     /\ r.op \in Ops /\ r.old \in Names
     /\ r.kind = "update" => r.new \in Names /\ ops[r.op] = r.new
     /\ r.kind = "delete" => ops[r.op] = None
     /\ reg => conn
     /\ \A o \in Ops \ {r.op} : held[o] # None => held[o] = ops[o]
     /\ \A n \in Names : tls[n] # None => ops[tls[n]] = n \/ (tls[n] = r.op /\ n = r.old)
  \/ /\ r.kind = "drop"
     /\ ~conn
     /\ \A n \in Names : tls[n] # None => n \in Range(r.ops)

\* Behind the rows is at most what the request at work is about to put right.
HooksInv ==
  /\ OneAtATime /\ RowsInv
  /\ ~hist.overlap =>
       /\ (\A a \in Admins : adm[a].kind = "idle") =>
            Current(db.conn, db.ops, cache[Api].reg, cache[Api].ops, tools)
       /\ \A a \in Admins : adm[a].kind # "idle" =>
            Behind(adm[a], db.conn, db.ops, cache[Api].reg, cache[Api].ops, tools)

-----------------------------------------------------------------------------
(* Types *)

\* The records the program starts from.
LEMMA EmptyTyped ==
  /\ Creds(0, 0, 0, 0) \in Blobs
  /\ [o \in Ops |-> None] \in Listings
  /\ NoCall \in CallRecords
  /\ NoAdmin \in AdminRecords
  /\ Unregistered \in [reg : BOOLEAN, creds : Blobs, ops : Listings]
<1>1. Creds(0, 0, 0, 0) \in Blobs
  BY DEF Creds, Blobs
<1>2. [o \in Ops |-> None] \in Listings
  BY DEF Listings
<1> QED BY <1>1, <1>2, ConnectorsAssumption
        DEF NoCall, NoAdmin, CallRecords, AdminRecords, Unregistered

\* What a call returns with.
LEMMA DoneTyped ==
  ASSUME NEW cl \in CallRecords, NEW res \in {"ok", "failed", "error", "raised", "lost"}
  PROVE  /\ Done(cl, res) \in CallRecords
         /\ Done(cl, res).pc = "done" /\ Done(cl, res).sent = cl.sent
         /\ Done(cl, res).used = cl.used /\ Done(cl, res).proc = cl.proc
         /\ Done(cl, res).creds = Creds(0, 0, 0, 0) /\ Done(cl, res).got = Creds(0, 0, 0, 0)
<1>1. NoCall \in CallRecords
  BY EmptyTyped
<1>2. Done(cl, res) \in CallRecords
  BY <1>1, ZenonT(60) DEF Done, CallRecords
<1>3. /\ Done(cl, res).pc = "done" /\ Done(cl, res).sent = cl.sent
      /\ Done(cl, res).used = cl.used /\ Done(cl, res).proc = cl.proc
      /\ Done(cl, res).creds = NoCall.creds /\ Done(cl, res).got = NoCall.got
  BY <1>1 DEF Done, CallRecords
<1>4. NoCall.creds = Creds(0, 0, 0, 0) /\ NoCall.got = Creds(0, 0, 0, 0)
  BY DEF NoCall
<1> QED BY <1>2, <1>3, <1>4

\* The tokens a refresh brings.
LEMMA PatchedTyped ==
  ASSUME TypeOK, NEW cr \in Blobs
  PROVE  /\ Patched(cr) \in Blobs
         /\ Patched(cr).refresh = IF idp.rotates /\ cr.refresh # 0 THEN idp.issued + 1
                                  ELSE cr.refresh
<1>1. idp.issued + 1 \in Nat
  BY DEF TypeOK
<1> QED BY <1>1 DEF Patched, Blobs

\* Where a call goes on after them.
LEMMA RenewedTyped ==
  ASSUME NEW cl \in CallRecords
  PROVE  /\ Renewed(cl) \in CallRecords
         /\ Renewed(cl).creds \in {cl.creds, cl.got}
         /\ Renewed(cl).got = Creds(0, 0, 0, 0)
         /\ Renewed(cl).pc \in {"prepare", "send"}
         /\ Renewed(cl).sent = cl.sent /\ Renewed(cl).left = cl.left
         /\ Renewed(cl).used = (cl.used \/ cl.why = "force")
<1>0. NoCall.got = Creds(0, 0, 0, 0) /\ NoCall.got \in Blobs
  BY EmptyTyped DEF NoCall
<1>1. CASE cl.why = "prepare"
  BY <1>0, <1>1 DEF Renewed, CallRecords
<1>2. CASE cl.why = "force"
  BY <1>0, <1>2 DEF Renewed, CallRecords
<1> QED BY <1>1, <1>2 DEF CallRecords

\* The registry entries the hooks write.
LEMMA RegisterTyped ==
  ASSUME NEW r \in [reg : BOOLEAN, creds : Blobs, ops : Listings], NEW cr \in Blobs,
         NEW ops \in Listings
  PROVE  Register(r, cr, ops) \in [reg : BOOLEAN, creds : Blobs, ops : Listings]
BY DEF Register, Listings

\* What a process builds from the rows.
LEMMA BuiltTyped ==
  ASSUME db \in [conn : BOOLEAN, creds : Blobs, ops : Listings]
  PROVE  /\ Loaded \in [reg : BOOLEAN, creds : Blobs, ops : Listings]
         /\ BuiltTools \in [Names -> Ops \cup {None}]
         /\ \A n \in Names : BuiltTools[n] # None =>
              BuiltTools[n] \in Ops /\ db.ops[BuiltTools[n]] = n
<1>1. Loaded \in [reg : BOOLEAN, creds : Blobs, ops : Listings]
  BY EmptyTyped DEF Loaded
<1>2. ASSUME NEW n \in Names, n \in Range(db.ops)
      PROVE  /\ (CHOOSE o \in Ops : db.ops[o] = n) \in Ops
             /\ db.ops[CHOOSE o \in Ops : db.ops[o] = n] = n
  <2>1. \E o \in Ops : db.ops[o] = n
    BY <1>2 DEF Range, Listings
  <2> QED BY <2>1
<1> QED BY <1>1, <1>2 DEF BuiltTools

\* A call that starts.
LEMMA BeginTyped ==
  ASSUME TypeOK, NEW c \in Calls, NEW p \in Procs, NEW o \in Ops \cup {None},
         NEW kind \in {"execute", "test", "draft"}, NEW own \in Blobs, Begin(c, p, o, kind, own)
  PROVE  /\ call[c].pc = "idle"
         /\ \E r \in CallRecords :
              /\ call' = [call EXCEPT ![c] = r]
              /\ \/ r = Done(NoCall, "raised")
                 \/ /\ r.pc = "prepare" /\ r.creds = own /\ r.got = Creds(0, 0, 0, 0)
                    /\ r.why = "prepare" /\ ~r.used /\ r.sent = 0 /\ r.left = Attempts - 1
         /\ UNCHANGED <<auth, req, sessions, adm, tools, count, db, cache, lock, idp, hist>>
<1> DEFINE s == [NoCall EXCEPT !.pc = "prepare", !.kind = kind, !.proc = p, !.op = o,
                   !.cached = kind # "draft", !.creds = own, !.left = Attempts - 1]
<1>1. NoCall \in CallRecords /\ Attempts - 1 \in Nat
  BY EmptyTyped, ConnectorsAssumption
<1>2. s \in CallRecords
  BY <1>1 DEF CallRecords
<1>3. /\ s.pc = "prepare" /\ s.creds = own /\ s.left = Attempts - 1
      /\ s.got = NoCall.got /\ s.why = NoCall.why /\ s.used = NoCall.used /\ s.sent = NoCall.sent
  BY <1>1 DEF CallRecords
<1>4. /\ NoCall.got = Creds(0, 0, 0, 0) /\ NoCall.why = "prepare" /\ ~NoCall.used
      /\ NoCall.sent = 0
  BY DEF NoCall
<1>5. Done(NoCall, "raised") \in CallRecords
  BY <1>1, DoneTyped
<1>6. call' = [call EXCEPT ![c] = Done(NoCall, "raised")] \/ call' = [call EXCEPT ![c] = s]
  BY DEF Begin, Step
<1> HIDE DEF s
<1>7. call[c].pc = "idle"
      /\ UNCHANGED <<auth, req, sessions, adm, tools, count, db, cache, lock, idp, hist>>
  BY DEF Begin, Quiet
<1> QED BY <1>2, <1>3, <1>4, <1>5, <1>6, <1>7

\* How a call may go on.
LEMMA AttemptTyped ==
  ASSUME TypeOK, NEW c \in Calls, NEW st, Attempt(c, st)
  PROVE  /\ call[c].pc = "send"
         /\ \E r \in CallRecords :
              /\ call' = [call EXCEPT ![c] = r]
              /\ r.sent = call[c].sent + 1 /\ r.used = call[c].used
              /\ r.creds \in {call[c].creds, Creds(0, 0, 0, 0)}
              /\ r.got \in {call[c].got, Creds(0, 0, 0, 0)}
              /\ \/ r.pc = "done"
                 \/ /\ r.pc = "wait" /\ r.why = "force" /\ ~call[c].used /\ r.left = call[c].left
                 \/ /\ r.pc = "prepare" /\ r.left = call[c].left - 1 /\ call[c].left > 0
         /\ UNCHANGED <<auth, req, sessions, adm, tools, count, db, cache, lock, idp, hist>>
<1> DEFINE cl == [call[c] EXCEPT !.sent = @ + 1]
           next == Answered(cl, st)
           good(r) == /\ r \in CallRecords
                      /\ r.sent = call[c].sent + 1 /\ r.used = call[c].used
                      /\ r.creds \in {call[c].creds, Creds(0, 0, 0, 0)}
                      /\ r.got \in {call[c].got, Creds(0, 0, 0, 0)}
                      /\ \/ r.pc = "done"
                         \/ /\ r.pc = "wait" /\ r.why = "force" /\ ~call[c].used
                            /\ r.left = call[c].left
                         \/ /\ r.pc = "prepare" /\ r.left = call[c].left - 1
                            /\ call[c].left > 0
<1>1. call[c] \in CallRecords
  BY DEF TypeOK
<1>2. /\ cl \in CallRecords
      /\ cl.sent = call[c].sent + 1 /\ cl.used = call[c].used /\ cl.left = call[c].left
      /\ cl.creds = call[c].creds /\ cl.got = call[c].got
  <2>0. call[c].sent \in Nat
    BY <1>1 DEF CallRecords
  <2>1. call[c].sent + 1 \in Nat
    BY <2>0
  <2>2. cl \in CallRecords
    BY <1>1, <2>1 DEF CallRecords
  <2> QED BY <1>1, <2>2 DEF CallRecords
<1>3. call' = [call EXCEPT ![c] = next]
  BY DEF Attempt, Step
<1> HIDE DEF cl
<1>4. /\ good(Done(cl, "ok")) /\ good(Done(cl, "failed")) /\ good(Done(cl, "error"))
      /\ good(Done(cl, "raised"))
  <2>1. \A res \in {"ok", "failed", "error", "raised", "lost"} :
          /\ Done(cl, res) \in CallRecords
          /\ Done(cl, res).pc = "done" /\ Done(cl, res).sent = cl.sent
          /\ Done(cl, res).used = cl.used
          /\ Done(cl, res).creds = Creds(0, 0, 0, 0) /\ Done(cl, res).got = Creds(0, 0, 0, 0)
    BY <1>2, DoneTyped
  <2> QED BY <1>2, <2>1
<1>5. Returned(cl, st) \in {"ok", "failed", "error", "raised"}
  BY DEF Returned
<1>6. ASSUME st = "auth", RenewOnce(cl) PROVE good(next)
  <2>1. ~call[c].used /\ next = ForceRefresh(cl)
    <3>1. ~ShouldRetry(cl, st)
      BY <1>6 DEF ShouldRetry
    <3>2. next = ForceRefresh(cl)
      BY <1>6, <3>1 DEF Answered
    <3> QED BY <1>2, <1>6, <3>2 DEF RenewOnce
  <2>2. CASE cl.creds.cfg = 0
    <3>1. next = Done(cl, "error")
      BY <2>1, <2>2 DEF ForceRefresh
    <3> HIDE DEF next
    <3> QED BY <1>4, <3>1
  <2>3. CASE cl.creds.cfg # 0
    <3>1. next = [cl EXCEPT !.pc = "wait", !.why = "force"]
      BY <2>1, <2>3 DEF ForceRefresh
    <3> HIDE DEF next
    <3>2. next \in CallRecords
      BY <1>2, <3>1 DEF CallRecords
    <3> QED BY <1>2, <2>1, <3>1, <3>2, ZenonT(60) DEF CallRecords
  <2> QED BY <2>2, <2>3
<1>7. ASSUME ~(st = "auth" /\ RenewOnce(cl)), ShouldRetry(cl, st) PROVE good(next)
  <2>1. next = [cl EXCEPT !.pc = "prepare", !.left = @ - 1]
    BY <1>7 DEF Answered
  <2>2. cl.left > 0 /\ cl.left \in Nat
    BY <1>2, <1>7 DEF ShouldRetry, CallRecords
  <2>3. cl.left - 1 \in Nat
    BY <2>2
  <2> HIDE DEF next
  <2>4. next \in CallRecords
    BY <1>2, <2>1, <2>3 DEF CallRecords
  <2> QED BY <1>2, <2>1, <2>2, <2>4, ZenonT(60) DEF CallRecords
<1>8. ASSUME ~(st = "auth" /\ RenewOnce(cl)), ~ShouldRetry(cl, st) PROVE good(next)
  <2>1. next = Done(cl, Returned(cl, st))
    BY <1>8 DEF Answered
  <2> HIDE DEF next
  <2> QED BY <1>4, <1>5, <2>1
<1>9. good(next)
  BY <1>6, <1>7, <1>8
<1>10. call[c].pc = "send"
       /\ UNCHANGED <<auth, req, sessions, adm, tools, count, db, cache, lock, idp, hist>>
  BY DEF Attempt, Quiet
<1> HIDE DEF next
<1> QED BY <1>3, <1>9, <1>10

\* A record that keeps what a call holds.
Keeps(r, cl) ==
  /\ r.creds = cl.creds /\ r.got = cl.got /\ r.used = cl.used
  /\ r.left = cl.left /\ r.sent = cl.sent

LEMMA PrepareTyped ==
  ASSUME TypeOK, NEW c \in Calls, Prepare(c)
  PROVE  /\ call[c].pc = "prepare"
         /\ \E r \in CallRecords :
              /\ call' = [call EXCEPT ![c] = r]
              /\ \/ r = Done(call[c], "error")
                 \/ r.pc \in {"send", "wait"} /\ r.why = "prepare" /\ Keeps(r, call[c])
         /\ UNCHANGED <<auth, req, sessions, adm, tools, count, db, cache, lock, idp, hist>>
<1>1. call[c] \in CallRecords
  BY DEF TypeOK
<1>2. PICK to \in {"done", "send", "wait"} :
        call' = [call EXCEPT ![c] = IF to = "done" THEN Done(call[c], "error")
                                    ELSE [call[c] EXCEPT !.pc = to, !.why = "prepare"]]
  <2> DEFINE cr == call[c].creds
             to == CASE auth = "none" -> "send"
                     [] auth = "oauth2" -> PrepareOAuth2(cr)
                     [] OTHER -> PrepareStatic(cr)
  <2>1. to \in {"done", "send", "wait"}
    BY DEF PrepareOAuth2, PrepareStatic
  <2>2. call' = [call EXCEPT ![c] = IF to = "done" THEN Done(call[c], "error")
                                    ELSE [call[c] EXCEPT !.pc = to, !.why = "prepare"]]
    BY Zenon DEF Prepare, Step
  <2> HIDE DEF to
  <2> QED BY <2>1, <2>2
<1>3. Done(call[c], "error") \in CallRecords
  BY <1>1, DoneTyped
<1>4. ASSUME to # "done"
      PROVE LET r == [call[c] EXCEPT !.pc = to, !.why = "prepare"]
            IN r \in CallRecords /\ r.pc = to /\ r.why = "prepare" /\ Keeps(r, call[c])
  BY <1>1, <1>4 DEF CallRecords, Keeps
<1>5. /\ call[c].pc = "prepare"
      /\ UNCHANGED <<auth, req, sessions, adm, tools, count, db, cache, lock, idp, hist>>
  BY DEF Prepare, Quiet
<1>6. CASE to = "done"
  BY <1>2, <1>3, <1>5, <1>6
<1>7. CASE to # "done"
  BY <1>2, <1>4, <1>5, <1>7
<1> QED BY <1>6, <1>7

LEMMA AcquireTyped ==
  ASSUME TypeOK, NEW c \in Calls, Acquire(c)
  PROVE  /\ call[c].pc = "wait"
         /\ \E r \in CallRecords :
              /\ call' = [call EXCEPT ![c] = r]
              /\ r.pc = "refresh" \/ (r.pc = "send" /\ call[c].why = "prepare")
              /\ r.why = call[c].why /\ Keeps(r, call[c])
         /\ lock' \in [Procs -> Calls \cup {None}]
         /\ UNCHANGED <<auth, req, sessions, adm, tools, count, db, cache, idp, hist>>
<1>1. call[c] \in CallRecords
  BY DEF TypeOK
<1>2. \A to \in {"send", "refresh"} :
        LET r == [call[c] EXCEPT !.pc = to]
        IN r \in CallRecords /\ r.pc = to /\ r.why = call[c].why /\ Keeps(r, call[c])
  BY <1>1 DEF CallRecords, Keeps
<1>3. \/ call' = [call EXCEPT ![c] = [call[c] EXCEPT !.pc = "send"]] /\ call[c].why = "prepare"
      \/ call' = [call EXCEPT ![c] = [call[c] EXCEPT !.pc = "refresh"]]
  BY DEF Acquire, Step
<1>4. lock' \in [Procs -> Calls \cup {None}]
  <2>1. call[c].proc \in Procs /\ lock \in [Procs -> Calls \cup {None}]
    BY <1>1 DEF TypeOK, CallRecords
  <2>2. lock' = lock \/ lock' = [lock EXCEPT ![call[c].proc] = c]
    BY DEF Acquire
  <2> QED BY <2>1, <2>2
<1>5. /\ call[c].pc = "wait"
      /\ UNCHANGED <<auth, req, sessions, adm, tools, count, db, cache, idp, hist>>
  BY DEF Acquire, Quiet
<1>6. CASE call' = [call EXCEPT ![c] = [call[c] EXCEPT !.pc = "send"]] /\ call[c].why = "prepare"
  BY <1>2, <1>4, <1>5, <1>6
<1>7. CASE call' = [call EXCEPT ![c] = [call[c] EXCEPT !.pc = "refresh"]]
  BY <1>2, <1>4, <1>5, <1>7
<1> QED BY <1>3, <1>6, <1>7

LEMMA UnlockedTyped ==
  ASSUME TypeOK, NEW c \in Calls
  PROVE  Unlocked(c) \in [Procs -> Calls \cup {None}]
BY DEF TypeOK, Unlocked

\* The provider issues a token.
LEMMA IssueTyped ==
  ASSUME TypeOK, NEW r \in Nat, Issue(r)
  PROVE  /\ idp' \in [rotates : BOOLEAN, dates : BOOLEAN, issued : Nat, usable : SUBSET Nat,
                      lapsed : SUBSET Nat]
         /\ idp'.rotates = idp.rotates /\ idp'.issued = idp.issued + 1
         /\ idp'.usable = IF idp.rotates /\ r # 0
                          THEN (idp.usable \ {r}) \cup {idp.issued + 1} ELSE idp.usable
<1>1. idp.issued + 1 \in Nat
  BY DEF TypeOK
<1> DEFINE u == IF idp.rotates /\ r # 0 THEN (idp.usable \ {r}) \cup {idp.issued + 1}
                ELSE idp.usable
<1>3. idp' = [idp EXCEPT !.issued = idp.issued + 1, !.usable = u]
  BY DEF Issue
<1>4. u \in SUBSET Nat
  BY <1>1 DEF TypeOK
<1> HIDE DEF u
<1>5. /\ idp' \in [rotates : BOOLEAN, dates : BOOLEAN, issued : Nat, usable : SUBSET Nat,
                   lapsed : SUBSET Nat]
      /\ idp'.rotates = idp.rotates /\ idp'.issued = idp.issued + 1 /\ idp'.usable = u
  BY <1>1, <1>3, <1>4 DEF TypeOK
<1> QED BY <1>5 DEF u

LEMMA RefreshGrantedTyped ==
  ASSUME TypeOK, NEW c \in Calls, RefreshGranted(c)
  PROVE  /\ call[c].pc = "refresh"
         /\ call[c].creds.refresh \in {0} \cup idp.usable
         /\ \E r \in CallRecords :
              /\ call' = [call EXCEPT ![c] = r]
              /\ r.sent = call[c].sent /\ r.left = call[c].left
              /\ \/ /\ sessions /\ r.pc = "persist"
                    /\ r.creds = call[c].creds /\ r.got = Patched(call[c].creds)
                    /\ r.used = call[c].used /\ r.why = call[c].why
                 \/ /\ ~sessions /\ r.pc \in {"prepare", "send"}
                    /\ r.creds \in {call[c].creds, Patched(call[c].creds)}
                    /\ r.got = Creds(0, 0, 0, 0)
                    /\ r.used = (call[c].used \/ call[c].why = "force")
         /\ Issue(call[c].creds.refresh)
         /\ lock' \in [Procs -> Calls \cup {None}]
         /\ hist' = [hist EXCEPT !.dropped = @ \/ ~sessions]
         /\ \/ cache' = cache
            \/ cache' = [cache EXCEPT ![call[c].proc].creds = Patched(call[c].creds)]
         /\ UNCHANGED <<auth, req, sessions, adm, tools, count, db>>
<1> DEFINE new == Patched(call[c].creds)
           cl == [call[c] EXCEPT !.got = new]
<1>1. call[c] \in CallRecords /\ call[c].creds \in Blobs
  BY DEF TypeOK, CallRecords
<1>2. new \in Blobs
  BY <1>1, PatchedTyped
<1>3. call' = [call EXCEPT ![c] = Stored(cl)]
  BY DEF RefreshGranted, Step
<1>7. \/ cache' = cache
      \/ cache' = [cache EXCEPT ![call[c].proc].creds = new]
  BY DEF RefreshGranted, InObject
<1> HIDE DEF new
<1>4. /\ cl \in CallRecords /\ cl.got = new
      /\ cl.sent = call[c].sent /\ cl.left = call[c].left /\ cl.creds = call[c].creds
      /\ cl.used = call[c].used /\ cl.why = call[c].why
  BY <1>1, <1>2 DEF CallRecords
<1> HIDE DEF cl
<1> DEFINE r == Stored(cl)
<1>5. /\ r \in CallRecords
      /\ r.sent = call[c].sent /\ r.left = call[c].left
      /\ \/ /\ sessions /\ r.pc = "persist" /\ r.creds = call[c].creds /\ r.got = new
            /\ r.used = call[c].used /\ r.why = call[c].why
         \/ /\ ~sessions /\ r.pc \in {"prepare", "send"} /\ r.creds \in {call[c].creds, new}
            /\ r.got = Creds(0, 0, 0, 0)
            /\ r.used = (call[c].used \/ call[c].why = "force")
  <2>1. CASE sessions
    <3>1. r = [cl EXCEPT !.pc = "persist"]
      BY <2>1 DEF Stored
    <3> HIDE DEF r
    <3>2. r \in CallRecords
      BY <1>1, <1>4, <3>1 DEF CallRecords
    <3> QED BY <1>4, <2>1, <3>1, <3>2 DEF CallRecords
  <2>2. CASE ~sessions
    <3>1. r = Renewed(cl)
      BY <2>2 DEF Stored
    <3> HIDE DEF r
    <3> QED BY <1>4, <2>2, <3>1, RenewedTyped
  <2> QED BY <2>1, <2>2
<1>6. /\ call[c].pc = "refresh" /\ call[c].creds.refresh \in {0} \cup idp.usable
      /\ Issue(call[c].creds.refresh)
      /\ lock' = Unlocked(c)
      /\ hist' = [hist EXCEPT !.dropped = @ \/ ~sessions]
      /\ UNCHANGED <<auth, req, sessions, adm, tools, count, db>>
  BY DEF RefreshGranted, CanIssue, Quiet
<1> HIDE DEF r
<1> QED BY <1>3, <1>5, <1>6, <1>7, UnlockedTyped DEF r, new

\* A refresh that fails, before or after the provider issued the tokens.
LEMMA RefreshFailsTyped ==
  ASSUME TypeOK, NEW c \in Calls, RefreshFails(c)
  PROVE  /\ call[c].pc = "refresh"
         /\ \E res \in {"error", "raised"} : call' = [call EXCEPT ![c] = Done(call[c], res)]
         /\ \/ UNCHANGED <<idp, hist>>
            \/ /\ Issue(call[c].creds.refresh) /\ hist' = [hist EXCEPT !.dropped = TRUE]
         /\ lock' \in [Procs -> Calls \cup {None}]
         /\ UNCHANGED <<auth, req, sessions, adm, tools, count, db, cache>>
<1>1. lock' \in [Procs -> Calls \cup {None}]
  BY UnlockedTyped DEF RefreshFails
<1> QED BY <1>1 DEF RefreshFails, Ends, Step, Quiet

\* The tokens go to the row.
LEMMA PersistTyped ==
  ASSUME TypeOK, NEW c \in Calls, Persist(c)
  PROVE  /\ call[c].pc = "persist"
         /\ \E r \in CallRecords :
              /\ call' = [call EXCEPT ![c] = r]
              /\ \/ /\ r = Done(call[c], "raised")
                    /\ db' = db /\ hist' = [hist EXCEPT !.dropped = TRUE]
                 \/ /\ r.creds \in {call[c].creds, call[c].got} /\ r.got = Creds(0, 0, 0, 0)
                    /\ r.pc \in {"prepare", "send"} /\ r.sent = call[c].sent
                    /\ r.left = call[c].left
                    /\ r.used = (call[c].used \/ call[c].why = "force")
                    /\ db' = (IF db.conn THEN [db EXCEPT !.creds = call[c].got] ELSE db)
                    /\ hist' = [hist EXCEPT !.stale = @ \/ db.creds.refresh # call[c].creds.refresh]
         /\ UNCHANGED <<auth, req, sessions, adm, tools, count, cache, lock, idp>>
<1>1. call[c] \in CallRecords
  BY DEF TypeOK
<1>4. \/ /\ call' = [call EXCEPT ![c] = Done(call[c], "raised")]
         /\ db' = db /\ hist' = [hist EXCEPT !.dropped = TRUE]
      \/ /\ call' = [call EXCEPT ![c] = Renewed(call[c])]
         /\ db' = (IF db.conn THEN [db EXCEPT !.creds = call[c].got] ELSE db)
         /\ hist' = [hist EXCEPT !.stale = @ \/ db.creds.refresh # call[c].creds.refresh]
  BY DEF Persist, Ends, Step
<1>5. /\ call[c].pc = "persist"
      /\ UNCHANGED <<auth, req, sessions, adm, tools, count, cache, lock, idp>>
  BY DEF Persist, Quiet
<1>7. Done(call[c], "raised") \in CallRecords
  BY <1>1, DoneTyped
<1>8. CASE /\ call' = [call EXCEPT ![c] = Done(call[c], "raised")]
           /\ db' = db /\ hist' = [hist EXCEPT !.dropped = TRUE]
  BY <1>5, <1>7, <1>8
<1>9. CASE /\ call' = [call EXCEPT ![c] = Renewed(call[c])]
           /\ db' = (IF db.conn THEN [db EXCEPT !.creds = call[c].got] ELSE db)
           /\ hist' = [hist EXCEPT !.stale = @ \/ db.creds.refresh # call[c].creds.refresh]
  <2> DEFINE r == Renewed(call[c])
  <2>1. /\ r \in CallRecords /\ r.creds \in {call[c].creds, call[c].got}
        /\ r.got = Creds(0, 0, 0, 0)
        /\ r.pc \in {"prepare", "send"} /\ r.sent = call[c].sent /\ r.left = call[c].left
        /\ r.used = (call[c].used \/ call[c].why = "force")
    BY <1>1, RenewedTyped
  <2> HIDE DEF r
  <2>2. call' = [call EXCEPT ![c] = r]
    BY <1>9 DEF r
  <2> QED BY <1>5, <1>9, <2>1, <2>2
<1> QED BY <1>4, <1>8, <1>9

\* A request that arrives.
LEMMA ArriveTyped ==
  ASSUME TypeOK, NEW a \in Admins, NEW rec \in AdminRecords, Arrive(a, rec)
  PROVE  /\ adm[a].kind = "idle" /\ adm' = [adm EXCEPT ![a] = rec]
         /\ adm' \in [Admins -> AdminRecords]
         /\ hist' \in [stale : BOOLEAN, dropped : BOOLEAN, overlap : BOOLEAN]
         /\ hist'.stale = hist.stale /\ hist'.dropped = hist.dropped
         /\ hist'.overlap = (hist.overlap \/ \E b \in Admins \ {a} : adm[b].kind # "idle")
         /\ UNCHANGED <<auth, req, sessions, lock, call, tools>>
<1>1. adm' = [adm EXCEPT ![a] = rec] /\ adm' \in [Admins -> AdminRecords]
  BY DEF Arrive, TypeOK
<1>2. hist' = [hist EXCEPT !.overlap = @ \/ \E b \in Admins \ {a} : adm[b].kind # "idle"]
  BY DEF Arrive
<1>3. /\ hist' \in [stale : BOOLEAN, dropped : BOOLEAN, overlap : BOOLEAN]
      /\ hist'.stale = hist.stale /\ hist'.dropped = hist.dropped
      /\ hist'.overlap = (hist.overlap \/ \E b \in Admins \ {a} : adm[b].kind # "idle")
  BY <1>2 DEF TypeOK
<1>4. adm[a].kind = "idle" /\ UNCHANGED <<auth, req, sessions, lock, call, tools>>
  BY DEF Arrive
<1> QED BY <1>1, <1>3, <1>4

\* The rows and the request an admin operation leaves.  Its creds are none, or
\* the row's.
Leaves(a, rec) ==
  /\ rec \in AdminRecords /\ Arrive(a, rec)
  /\ db' \in [conn : BOOLEAN, creds : Blobs, ops : Listings]
  /\ rec.creds \in {Creds(0, 0, 0, 0), db'.creds}
  /\ db'.creds = db.creds \/ db'.creds.refresh = 0
  /\ db'.conn => db.conn
  /\ idp' = idp

LEMMA CreateTyped ==
  ASSUME TypeOK, NEW a \in Admins, NEW o \in Ops, NEW n \in Names, CreateOperation(a, o, n)
  PROVE  /\ \E rec : Leaves(a, rec) /\ rec.kind = "create" /\ rec.op = o /\ rec.new = n
         /\ db.conn /\ db'.conn = db.conn /\ cache' = cache
         /\ db.ops[o] = None /\ n \notin Range(db.ops) /\ db'.ops = [db.ops EXCEPT ![o] = n]
<1> DEFINE rec == [NoAdmin EXCEPT !.kind = "create", !.op = o, !.new = n]
<1>1. NoAdmin \in AdminRecords /\ NoAdmin.creds = Creds(0, 0, 0, 0)
  BY EmptyTyped DEF NoAdmin
<1>2. /\ rec \in AdminRecords /\ rec.kind = "create" /\ rec.op = o /\ rec.new = n
      /\ rec.creds = Creds(0, 0, 0, 0)
  BY <1>1 DEF AdminRecords
<1>3. Arrive(a, rec) /\ db' = [db EXCEPT !.ops[o] = n] /\ cache' = cache /\ idp' = idp
  BY DEF CreateOperation
<1>4. db' \in [conn : BOOLEAN, creds : Blobs, ops : Listings]
      /\ db'.conn = db.conn /\ db'.creds = db.creds /\ db'.ops = [db.ops EXCEPT ![o] = n]
  BY <1>3 DEF TypeOK, Listings
<1> HIDE DEF rec
<1>5. Leaves(a, rec)
  BY <1>2, <1>3, <1>4 DEF Leaves
<1>6. db.conn /\ db.ops[o] = None /\ n \notin Range(db.ops)
  BY DEF CreateOperation
<1> QED BY <1>2, <1>3, <1>4, <1>5, <1>6

LEMMA UpdateTyped ==
  ASSUME TypeOK, NEW a \in Admins, NEW o \in Ops, NEW n \in Names, UpdateOperation(a, o, n)
  PROVE  /\ \E rec : Leaves(a, rec) /\ rec.kind = "update" /\ rec.op = o /\ rec.new = n
                     /\ rec.old = db.ops[o]
         /\ db'.conn = db.conn /\ cache' = cache
         /\ db.ops[o] # None /\ n \notin Range(db.ops) \ {db.ops[o]}
         /\ db'.ops = [db.ops EXCEPT ![o] = n]
<1> DEFINE rec == [NoAdmin EXCEPT !.kind = "update", !.op = o, !.old = db.ops[o], !.new = n,
                     !.creds = db.creds]
<1>1. NoAdmin \in AdminRecords /\ db.ops[o] \in Names \cup {None} /\ db.creds \in Blobs
  BY EmptyTyped DEF TypeOK, Listings
<1>2. /\ rec \in AdminRecords /\ rec.kind = "update" /\ rec.op = o /\ rec.new = n
      /\ rec.old = db.ops[o] /\ rec.creds = db.creds
  BY <1>1 DEF AdminRecords
<1>3. Arrive(a, rec) /\ db' = [db EXCEPT !.ops[o] = n] /\ cache' = cache /\ idp' = idp
  BY DEF UpdateOperation
<1>4. db' \in [conn : BOOLEAN, creds : Blobs, ops : Listings]
      /\ db'.conn = db.conn /\ db'.creds = db.creds /\ db'.ops = [db.ops EXCEPT ![o] = n]
  BY <1>3 DEF TypeOK, Listings
<1> HIDE DEF rec
<1>5. Leaves(a, rec)
  BY <1>2, <1>3, <1>4 DEF Leaves
<1>6. db.ops[o] # None /\ n \notin Range(db.ops) \ {db.ops[o]}
  BY DEF UpdateOperation
<1> QED BY <1>2, <1>3, <1>4, <1>5, <1>6

LEMMA DeleteTyped ==
  ASSUME TypeOK, NEW a \in Admins, NEW o \in Ops, DeleteOperation(a, o)
  PROVE  /\ \E rec : Leaves(a, rec) /\ rec.kind = "delete" /\ rec.op = o /\ rec.old = db.ops[o]
         /\ db'.conn = db.conn /\ cache' = cache
         /\ db.ops[o] # None /\ db'.ops = [db.ops EXCEPT ![o] = None]
<1> DEFINE rec == [NoAdmin EXCEPT !.kind = "delete", !.op = o, !.old = db.ops[o]]
<1>1. /\ NoAdmin \in AdminRecords /\ db.ops[o] \in Names \cup {None}
      /\ NoAdmin.creds = Creds(0, 0, 0, 0)
  BY EmptyTyped DEF TypeOK, Listings, NoAdmin
<1>2. /\ rec \in AdminRecords /\ rec.kind = "delete" /\ rec.op = o
      /\ rec.old = db.ops[o] /\ rec.creds = Creds(0, 0, 0, 0)
  BY <1>1 DEF AdminRecords
<1>3. Arrive(a, rec) /\ db' = [db EXCEPT !.ops[o] = None] /\ cache' = cache /\ idp' = idp
  BY DEF DeleteOperation
<1>4. db' \in [conn : BOOLEAN, creds : Blobs, ops : Listings]
      /\ db'.conn = db.conn /\ db'.creds = db.creds /\ db'.ops = [db.ops EXCEPT ![o] = None]
  BY <1>3 DEF TypeOK, Listings
<1> HIDE DEF rec
<1>5. Leaves(a, rec)
  BY <1>2, <1>3, <1>4 DEF Leaves
<1>6. db.ops[o] # None
  BY DEF DeleteOperation
<1> QED BY <1>2, <1>3, <1>4, <1>5, <1>6

LEMMA UpdateConnectorTyped ==
  ASSUME TypeOK, NEW a \in Admins, NEW v \in {None, 0, 2}, UpdateConnector(a, v)
  PROVE  /\ \E rec : Leaves(a, rec) /\ rec.kind = "register" /\ rec.ops = db.ops
         /\ db.conn /\ db'.conn = db.conn /\ cache' = cache /\ db'.ops = db.ops
<1> DEFINE rec == [NoAdmin EXCEPT !.kind = "register", !.creds = db'.creds, !.ops = db.ops]
<1>1. NoAdmin \in AdminRecords /\ db.ops \in Listings
  BY EmptyTyped DEF TypeOK
<1>2. Arrive(a, rec) /\ cache' = cache /\ idp' = idp /\ db.conn
      /\ db' = IF v = None THEN db ELSE [db EXCEPT !.creds = Creds(0, 0, 0, v)]
  BY DEF UpdateConnector
<1>3. /\ db' \in [conn : BOOLEAN, creds : Blobs, ops : Listings]
      /\ db'.conn = db.conn /\ db'.ops = db.ops
      /\ db'.creds = db.creds \/ db'.creds.refresh = 0
  <2>1. CASE v = None
    BY <1>2, <2>1 DEF TypeOK
  <2>2. CASE v # None
    <3>1. Creds(0, 0, 0, v) \in Blobs /\ Creds(0, 0, 0, v).refresh = 0
      BY <2>2 DEF Creds, Blobs
    <3>2. db' = [db EXCEPT !.creds = Creds(0, 0, 0, v)]
      BY <1>2, <2>2
    <3> QED BY <3>1, <3>2 DEF TypeOK
  <2> QED BY <2>1, <2>2
<1>4. db'.creds \in Blobs
  BY <1>3
<1>5. rec \in AdminRecords /\ rec.kind = "register" /\ rec.ops = db.ops /\ rec.creds = db'.creds
  BY <1>1, <1>4 DEF AdminRecords
<1> HIDE DEF rec
<1>6. Leaves(a, rec)
  BY <1>2, <1>3, <1>5 DEF Leaves
<1> QED BY <1>2, <1>3, <1>5, <1>6

LEMMA DeleteConnectorTyped ==
  ASSUME TypeOK, NEW a \in Admins, DeleteConnector(a)
  PROVE  /\ \E rec : Leaves(a, rec) /\ rec.kind = "drop" /\ rec.ops = db.ops
         /\ ~db'.conn /\ cache' = cache /\ db'.ops = [o \in Ops |-> None]
<1> DEFINE rec == [NoAdmin EXCEPT !.kind = "drop", !.ops = db.ops]
<1>1. /\ NoAdmin \in AdminRecords /\ db.ops \in Listings /\ NoAdmin.creds = Creds(0, 0, 0, 0)
      /\ [o \in Ops |-> None] \in Listings
  BY EmptyTyped DEF TypeOK, NoAdmin
<1>2. rec \in AdminRecords /\ rec.kind = "drop" /\ rec.ops = db.ops
      /\ rec.creds = Creds(0, 0, 0, 0)
  BY <1>1 DEF AdminRecords
<1>3. Arrive(a, rec) /\ cache' = cache /\ idp' = idp /\ db.conn
      /\ db' = [db EXCEPT !.conn = FALSE, !.ops = [o \in Ops |-> None]]
  BY DEF DeleteConnector
<1>4. /\ db' \in [conn : BOOLEAN, creds : Blobs, ops : Listings]
      /\ ~db'.conn /\ db'.ops = [o \in Ops |-> None] /\ db'.creds = db.creds
  BY <1>1, <1>3 DEF TypeOK
<1> HIDE DEF rec
<1>5. Leaves(a, rec)
  BY <1>2, <1>3, <1>4 DEF Leaves
<1> QED BY <1>2, <1>3, <1>4, <1>5

LEMMA EnsureTyped ==
  ASSUME TypeOK, NEW a \in Admins, NEW o \in Ops, EnsureRegistered(a, o)
  PROVE  /\ \E rec : /\ Leaves(a, rec) /\ rec.kind = "register"
                     /\ \A x \in Ops : rec.ops[x] # None => rec.ops[x] = db.ops[x]
         /\ db.ops[o] # None /\ db' = db /\ cache' = cache
<1> DEFINE one == [x \in Ops |-> IF x = o THEN db.ops[o] ELSE None]
           rec == [NoAdmin EXCEPT !.kind = "register", !.creds = db.creds, !.ops = one]
<1>1. NoAdmin \in AdminRecords /\ db.creds \in Blobs /\ one \in Listings
      /\ \A x \in Ops : one[x] # None => one[x] = db.ops[x]
  BY EmptyTyped DEF TypeOK, Listings
<1>2. Arrive(a, rec) /\ cache' = cache /\ idp' = idp /\ db' = db /\ db.ops[o] # None
  BY DEF EnsureRegistered
<1> HIDE DEF one
<1>3. rec \in AdminRecords /\ rec.kind = "register" /\ rec.ops = one /\ rec.creds = db.creds
  BY <1>1 DEF AdminRecords
<1> HIDE DEF rec
<1>4. Leaves(a, rec)
  BY <1>2, <1>3 DEF Leaves, TypeOK
<1> QED BY <1>1, <1>2, <1>3, <1>4

LEMMA ReloadTyped ==
  ASSUME TypeOK, NEW a \in Admins, Reload(a)
  PROVE  /\ \E rec : Leaves(a, rec) /\ rec.kind = "load" /\ rec.ops = db.ops
         /\ db.conn /\ db' = db /\ cache' = [cache EXCEPT ![Api] = Unregistered]
<1> DEFINE rec == [NoAdmin EXCEPT !.kind = "load", !.creds = db.creds, !.ops = db.ops]
<1>1. NoAdmin \in AdminRecords /\ db.creds \in Blobs /\ db.ops \in Listings
  BY EmptyTyped DEF TypeOK
<1>2. /\ Arrive(a, rec) /\ idp' = idp /\ db' = db /\ db.conn
      /\ cache' = [cache EXCEPT ![Api] = Unregistered]
  BY DEF Reload
<1>3. rec \in AdminRecords /\ rec.kind = "load" /\ rec.ops = db.ops /\ rec.creds = db.creds
  BY <1>1 DEF AdminRecords
<1> HIDE DEF rec
<1>4. Leaves(a, rec)
  BY <1>2, <1>3 DEF Leaves, TypeOK
<1> QED BY <1>2, <1>3, <1>4

LEMMA StartTyped ==
  ASSUME TypeOK, NEW a \in Admins, OAuth2Start(a)
  PROVE  /\ \E rec : Leaves(a, rec) /\ rec.kind = "popup"
         /\ db' = db /\ cache' = cache
<1> DEFINE rec == [NoAdmin EXCEPT !.kind = "popup"]
<1>1. NoAdmin \in AdminRecords /\ NoAdmin.creds = Creds(0, 0, 0, 0)
  BY EmptyTyped DEF NoAdmin
<1>2. Arrive(a, rec) /\ idp' = idp /\ db' = db /\ cache' = cache
  BY DEF OAuth2Start
<1>3. rec \in AdminRecords /\ rec.kind = "popup" /\ rec.creds = Creds(0, 0, 0, 0)
  BY <1>1 DEF AdminRecords
<1> HIDE DEF rec
<1>4. Leaves(a, rec)
  BY <1>2, <1>3 DEF Leaves, TypeOK
<1> QED BY <1>2, <1>3, <1>4

\* The callback, and what the exchange stores.
LEMMA CallbackTyped ==
  ASSUME TypeOK, NEW a \in Admins, OAuth2Callback(a)
  PROVE  /\ adm[a].kind = "popup"
         /\ \E rec \in AdminRecords :
              /\ adm' = [adm EXCEPT ![a] = rec]
              /\ rec.kind \in {"exchange", "idle"} /\ rec.creds \in {Creds(0, 0, 0, 0), db.creds}
         /\ UNCHANGED <<auth, req, sessions, lock, rows, call, idp, hist>>
<1> DEFINE rec == [NoAdmin EXCEPT !.kind = "exchange", !.creds = db.creds]
<1>1. /\ NoAdmin \in AdminRecords /\ NoAdmin.kind = "idle" /\ NoAdmin.creds = Creds(0, 0, 0, 0)
      /\ db.creds \in Blobs
  BY EmptyTyped DEF NoAdmin, TypeOK
<1>2. rec \in AdminRecords /\ rec.kind = "exchange" /\ rec.creds = db.creds
  BY <1>1 DEF AdminRecords
<1>3. adm' = [adm EXCEPT ![a] = rec] \/ adm' = [adm EXCEPT ![a] = NoAdmin]
  BY DEF OAuth2Callback, Goes
<1> HIDE DEF rec
<1>4. adm[a].kind = "popup" /\ UNCHANGED <<auth, req, sessions, lock, rows, call, idp, hist>>
  BY DEF OAuth2Callback, Goes
<1> QED BY <1>1, <1>2, <1>3, <1>4

LEMMA ExchangeTyped ==
  ASSUME TypeOK, NEW a \in Admins, Exchange(a)
  PROVE  /\ adm[a].kind = "exchange"
         /\ \/ adm' = [adm EXCEPT ![a] = NoAdmin] /\ UNCHANGED <<db, idp>>
            \/ \E new \in Blobs :
                 /\ new.refresh = idp.issued + 1
                 /\ idp' = [idp EXCEPT !.issued = idp.issued + 1,
                                       !.usable = @ \cup {idp.issued + 1}]
                 /\ \/ ~db.conn /\ db' = db /\ adm' = [adm EXCEPT ![a] = NoAdmin]
                    \/ /\ db.conn /\ db' = [db EXCEPT !.creds = new]
                       /\ \E rec \in AdminRecords :
                            /\ adm' = [adm EXCEPT ![a] = rec] /\ rec.kind = "register"
                            /\ rec.creds = new /\ rec.ops = db.ops
         /\ UNCHANGED <<auth, req, sessions, lock, cache, call, tools, hist>>
<1> DEFINE n == idp.issued + 1
           new == [adm[a].creds EXCEPT !.access = n, !.refresh = n,
                                       !.exp = IF idp.dates THEN n ELSE @]
           rec == [NoAdmin EXCEPT !.kind = "register", !.creds = new, !.ops = db.ops]
<1>1. n \in Nat /\ adm[a].creds \in Blobs /\ NoAdmin \in AdminRecords /\ db.ops \in Listings
  BY EmptyTyped DEF TypeOK, AdminRecords
<1>2. new \in Blobs /\ new.refresh = n
  <2> HIDE DEF n
  <2> QED BY <1>1 DEF Blobs
<1>3. \/ adm' = [adm EXCEPT ![a] = NoAdmin] /\ UNCHANGED <<db, idp>>
      \/ /\ idp' = [idp EXCEPT !.issued = n, !.usable = @ \cup {n}]
         /\ db' = (IF db.conn THEN [db EXCEPT !.creds = new] ELSE db)
         /\ adm' = [adm EXCEPT ![a] = IF ~db.conn THEN NoAdmin ELSE rec]
  BY DEF Exchange, Goes
<1> HIDE DEF new
<1>4. rec \in AdminRecords /\ rec.kind = "register" /\ rec.creds = new /\ rec.ops = db.ops
  BY <1>1, <1>2 DEF AdminRecords
<1> HIDE DEF rec
<1>5. /\ adm[a].kind = "exchange"
      /\ UNCHANGED <<auth, req, sessions, lock, cache, call, tools, hist>>
  BY DEF Exchange, Goes
<1> QED BY <1>2, <1>3, <1>4, <1>5

\* A hook sets the API process's registry and tools; calls in flight keep their
\* locals.
LEMMA HookedTyped ==
  ASSUME TypeOK, NEW a \in Admins, NEW k,
         NEW reg \in [reg : BOOLEAN, creds : Blobs, ops : Listings],
         NEW tls \in [Names -> Ops \cup {None}], Hooked(a, k, reg, tls)
  PROVE  /\ adm[a].kind = k /\ adm' = [adm EXCEPT ![a] = NoAdmin]
         /\ cache' = [cache EXCEPT ![Api] = reg] /\ tools' = tls
         /\ call' \in [Calls -> CallRecords]
         /\ \A c \in Calls : /\ call'[c].pc = call[c].pc /\ call'[c].why = call[c].why
                             /\ Keeps(call'[c], call[c])
         /\ UNCHANGED <<auth, req, sessions, lock, db, idp, hist>>
<1>1. /\ call' = [c \in Calls |-> IF k \notin {"create", "delete"} /\ call[c].proc = Api
                                  THEN [call[c] EXCEPT !.cached = FALSE] ELSE call[c]]
      /\ adm[a].kind = k /\ adm' = [adm EXCEPT ![a] = NoAdmin]
      /\ cache' = [cache EXCEPT ![Api] = reg] /\ tools' = tls
      /\ UNCHANGED <<auth, req, sessions, lock, db, idp, hist>>
  BY DEF Hooked, Goes
<1>2. ASSUME NEW c \in Calls
      PROVE  /\ call'[c] \in CallRecords
             /\ call'[c].pc = call[c].pc /\ call'[c].why = call[c].why /\ Keeps(call'[c], call[c])
  <2>1. call[c] \in CallRecords
    BY DEF TypeOK
  <2>2. call'[c] = call[c] \/ call'[c] = [call[c] EXCEPT !.cached = FALSE]
    BY <1>1
  <2> QED BY <2>1, <2>2 DEF CallRecords, Keeps
<1> QED BY <1>1, <1>2

\* The six hooks are that, with typed entries.
Hooks(a) ==
  OnCreated(a) \/ OnUpdated(a) \/ OnDeleted(a) \/ OnConnectorDeleted(a) \/ OnRegister(a)
    \/ OnLoaded(a)

LEMMA HooksTyped ==
  ASSUME TypeOK, NEW a \in Admins, Hooks(a)
  PROVE  \E reg \in [reg : BOOLEAN, creds : Blobs, ops : Listings],
            tls \in [Names -> Ops \cup {None}] :
           /\ reg.creds \in {cache[Api].creds, adm[a].creds, Creds(0, 0, 0, 0)}
           /\ \E k : Hooked(a, k, reg, tls)
<1> DEFINE R == [reg : BOOLEAN, creds : Blobs, ops : Listings]
           T == [Names -> Ops \cup {None}]
<1>1. /\ cache[Api] \in R /\ tools \in T /\ adm[a] \in AdminRecords
      /\ adm[a].creds \in Blobs /\ adm[a].ops \in Listings /\ adm[a].op \in Ops \cup {None}
      /\ adm[a].new \in Names \cup {None}
  BY ConnectorsAssumption DEF TypeOK, AdminRecords
<1>2. /\ \A n \in Names \cup {None}, o \in Ops \cup {None} : Attach(tools, n, o) \in T
      /\ \A ns : Detach(tools, ns) \in T
  BY <1>1 DEF Attach, Detach
<1>3. ASSUME NEW reg \in R, NEW tls \in T, NEW k,
             reg.creds \in {cache[Api].creds, adm[a].creds, Creds(0, 0, 0, 0)},
             Hooked(a, k, reg, tls)
      PROVE  \E reg2 \in R, tls2 \in T :
               /\ reg2.creds \in {cache[Api].creds, adm[a].creds, Creds(0, 0, 0, 0)}
               /\ \E k2 : Hooked(a, k2, reg2, tls2)
  BY <1>3
<1>4. CASE OnCreated(a)
  BY <1>1, <1>2, <1>3, <1>4 DEF OnCreated
<1>5. CASE OnUpdated(a)
  <2> DEFINE one == [o \in Ops |-> IF o = adm[a].op THEN adm[a].new ELSE None]
             reg == Register(cache[Api], adm[a].creds, one)
  <2>1. one \in Listings
    BY <1>1 DEF Listings
  <2>2. reg \in R /\ reg.creds = adm[a].creds
    <3> HIDE DEF one
    <3> QED BY <1>1, <2>1, RegisterTyped DEF Register
  <2>3. Reattached(a) \in T
    BY <1>1 DEF Reattached, Attach, Detach
  <2>4. Hooked(a, "update", reg, Reattached(a))
    BY <1>5 DEF OnUpdated
  <2> HIDE DEF reg
  <2> QED BY <1>3, <2>2, <2>3, <2>4
<1>6. CASE OnDeleted(a)
  <2> DEFINE reg == [cache[Api] EXCEPT !.ops[adm[a].op] = None]
  <2>1. reg \in R /\ reg.creds = cache[Api].creds
    BY <1>1 DEF Listings
  <2>2. Hooked(a, "delete", reg, Detach(tools, {adm[a].old}))
    BY <1>6 DEF OnDeleted
  <2> HIDE DEF reg
  <2> QED BY <1>2, <1>3, <2>1, <2>2
<1>7. CASE OnConnectorDeleted(a)
  <2>1. Unregistered \in R /\ Unregistered.creds = Creds(0, 0, 0, 0)
    BY EmptyTyped DEF Unregistered
  <2> QED BY <1>2, <1>3, <1>7, <2>1 DEF OnConnectorDeleted
<1>8. CASE OnRegister(a) \/ OnLoaded(a)
  <2>1. /\ Register(cache[Api], adm[a].creds, adm[a].ops) \in R
        /\ Register(cache[Api], adm[a].creds, adm[a].ops).creds = adm[a].creds
    BY <1>1, RegisterTyped DEF Register
  <2>2. /\ Register(Unregistered, adm[a].creds, adm[a].ops) \in R
        /\ Register(Unregistered, adm[a].creds, adm[a].ops).creds = adm[a].creds
    BY <1>1, EmptyTyped, RegisterTyped DEF Register
  <2> QED BY <1>1, <1>3, <1>8, <2>1, <2>2 DEF OnRegister, OnLoaded
<1> QED BY <1>4, <1>5, <1>6, <1>7, <1>8 DEF Hooks

\* A process that dies loses its calls, and the API process its requests.
LEMMA RestartTyped ==
  ASSUME TypeOK, NEW p \in Procs, Restart(p)
  PROVE  /\ cache' = [cache EXCEPT ![p] = Loaded]
         /\ lock' \in [Procs -> Calls \cup {None}]
         /\ tools' = (IF p = Api THEN BuiltTools ELSE tools)
         /\ adm' = (IF p = Api THEN [a \in Admins |-> NoAdmin] ELSE adm)
         /\ \A c \in Calls : call'[c] = call[c] \/ call'[c] = Done(call[c], "lost")
         /\ \A c \in Calls : call[c].pc = "persist" =>
              call'[c] = call[c] \/ hist'.dropped
         /\ call' \in [Calls -> CallRecords]
         /\ hist' \in [stale : BOOLEAN, dropped : BOOLEAN, overlap : BOOLEAN]
         /\ hist'.stale = hist.stale /\ hist'.overlap = hist.overlap
         /\ hist.dropped => hist'.dropped
         /\ UNCHANGED <<auth, req, sessions, db, idp>>
<1>1. /\ call' = [c \in Calls |->
            IF call[c].proc = p /\ call[c].pc \notin {"idle", "done"}
            THEN Done(call[c], "lost") ELSE call[c]]
      /\ hist' = [hist EXCEPT !.dropped = @ \/ \E c \in Calls :
                                            call[c].proc = p /\ call[c].pc = "persist"]
  BY DEF Restart
<1>2. /\ hist' \in [stale : BOOLEAN, dropped : BOOLEAN, overlap : BOOLEAN]
      /\ hist'.stale = hist.stale /\ hist'.overlap = hist.overlap
      /\ hist'.dropped = (hist.dropped \/ \E c \in Calls :
                                            call[c].proc = p /\ call[c].pc = "persist")
  BY <1>1 DEF TypeOK
<1>3. ASSUME NEW c \in Calls PROVE call[c] \in CallRecords /\ Done(call[c], "lost") \in CallRecords
  BY DoneTyped DEF TypeOK
<1>4. call' \in [Calls -> CallRecords]
  BY <1>1, <1>3
<1>5. /\ \A c \in Calls : call'[c] = call[c] \/ call'[c] = Done(call[c], "lost")
      /\ \A c \in Calls : call[c].pc = "persist" => call'[c] = call[c] \/ hist'.dropped
  BY <1>1, <1>2
<1>6. lock' \in [Procs -> Calls \cup {None}]
  BY DEF TypeOK, Restart
<1> QED BY <1>2, <1>4, <1>5, <1>6 DEF Restart

\* The three ways a call begins: with the credentials of a cache, or the row's.
Begins(c) ==
  \/ \E p \in Procs, o \in Ops : Execute(c, p, o)
  \/ \E o \in Ops : TestOperation(c, o)
  \/ TestDraft(c)

LEMMA BeginsTyped ==
  ASSUME TypeOK, NEW c \in Calls, Begins(c)
  PROVE  /\ call[c].pc = "idle"
         /\ \E r \in CallRecords :
              /\ call' = [call EXCEPT ![c] = r]
              /\ \/ r = Done(NoCall, "raised")
                 \/ /\ r.creds \in {db.creds} \cup {cache[p].creds : p \in Procs}
                    /\ r.pc = "prepare" /\ r.got = Creds(0, 0, 0, 0)
                    /\ r.why = "prepare" /\ ~r.used /\ r.sent = 0 /\ r.left = Attempts - 1
         /\ UNCHANGED <<auth, req, sessions, adm, tools, count, db, cache, lock, idp, hist>>
<1>1. \E p \in Procs, o \in Ops \cup {None}, kind \in {"execute", "test", "draft"},
         own \in {db.creds} \cup {cache[p].creds : p \in Procs} : Begin(c, p, o, kind, own)
  <2>1. ASSUME NEW p \in Procs, NEW o \in Ops, Execute(c, p, o)
        PROVE  \E kind \in {"execute", "test", "draft"},
                  own \in {db.creds} \cup {cache[q].creds : q \in Procs} :
                 Begin(c, p, o, kind, own)
    BY <2>1 DEF Execute
  <2>2. ASSUME NEW o \in Ops, TestOperation(c, o)
        PROVE  \E kind \in {"execute", "test", "draft"},
                  own \in {db.creds} \cup {cache[q].creds : q \in Procs} :
                 Begin(c, Api, o, kind, own)
    BY <2>2, ConnectorsAssumption DEF TestOperation
  <2>3. ASSUME TestDraft(c)
        PROVE  \E kind \in {"execute", "test", "draft"},
                  own \in {db.creds} \cup {cache[q].creds : q \in Procs} :
                 Begin(c, Api, None, kind, own)
    <3> DEFINE own == IF cache[Api].reg THEN cache[Api].creds ELSE db.creds
    <3>1. own \in {db.creds} \cup {cache[q].creds : q \in Procs}
      BY ConnectorsAssumption
    <3>2. Begin(c, Api, None, "draft", own)
      BY <2>3 DEF TestDraft
    <3> HIDE DEF own
    <3> QED BY <3>1, <3>2
  <2> QED BY <2>1, <2>2, <2>3, ConnectorsAssumption DEF Begins
<1>2. PICK p \in Procs, o \in Ops \cup {None}, kind \in {"execute", "test", "draft"},
           own \in {db.creds} \cup {cache[q].creds : q \in Procs} : Begin(c, p, o, kind, own)
  BY <1>1
<1>3. own \in Blobs
  BY DEF TypeOK
<1>4. /\ call[c].pc = "idle"
      /\ \E r \in CallRecords :
           /\ call' = [call EXCEPT ![c] = r]
           /\ \/ r = Done(NoCall, "raised")
              \/ /\ r.pc = "prepare" /\ r.creds = own /\ r.got = Creds(0, 0, 0, 0)
                 /\ r.why = "prepare" /\ ~r.used /\ r.sent = 0 /\ r.left = Attempts - 1
      /\ UNCHANGED <<auth, req, sessions, adm, tools, count, db, cache, lock, idp, hist>>
  BY <1>2, <1>3, BeginTyped
<1> QED BY <1>4

\* The requests that arrive: what they leave behind, and the registry emptied
\* by a reload.
Arrives(a) ==
  \/ \E o \in Ops, n \in Names : CreateOperation(a, o, n) \/ UpdateOperation(a, o, n)
  \/ \E o \in Ops : DeleteOperation(a, o) \/ EnsureRegistered(a, o)
  \/ \E v \in {None, 0, 2} : UpdateConnector(a, v)
  \/ DeleteConnector(a) \/ Reload(a) \/ OAuth2Start(a)

LEMMA ArrivesTyped ==
  ASSUME TypeOK, NEW a \in Admins, Arrives(a)
  PROVE  /\ \E rec : Leaves(a, rec)
         /\ cache' = cache \/ cache' = [cache EXCEPT ![Api] = Unregistered]
<1>1. CASE \E o \in Ops, n \in Names : CreateOperation(a, o, n) \/ UpdateOperation(a, o, n)
  BY <1>1, CreateTyped, UpdateTyped
<1>2. CASE \E o \in Ops : DeleteOperation(a, o) \/ EnsureRegistered(a, o)
  BY <1>2, DeleteTyped, EnsureTyped
<1>3. CASE \E v \in {None, 0, 2} : UpdateConnector(a, v)
  BY <1>3, UpdateConnectorTyped
<1>4. CASE DeleteConnector(a) \/ Reload(a) \/ OAuth2Start(a)
  BY <1>4, DeleteConnectorTyped, ReloadTyped, StartTyped
<1> QED BY <1>1, <1>2, <1>3, <1>4 DEF Arrives

\* The actions in their groups.
LEMMA StepGroups ==
  ASSUME Next, NEW P,
         \A t \in 1..MaxLapsed : Lapse(t) => P,
         \A c \in Calls : Begins(c) => P,
         \A c \in Calls : Prepare(c) => P,
         \A c \in Calls : Acquire(c) => P,
         \A c \in Calls : RefreshGranted(c) => P,
         \A c \in Calls : RefreshFails(c) => P,
         \A c \in Calls : Persist(c) => P,
         \A c \in Calls : \A st : Attempt(c, st) => P,
         \A a \in Admins : Arrives(a) => P,
         \A a \in Admins : OAuth2Callback(a) => P,
         \A a \in Admins : Exchange(a) => P,
         \A a \in Admins : Hooks(a) => P,
         \A p \in Procs : Restart(p) => P
  PROVE  P
<1>1. ASSUME NEW c \in Calls, Runs(c) PROVE P
  BY <1>1 DEF Runs
<1>2. ASSUME NEW a \in Admins, NEW v \in (IF auth = "oauth2" THEN {None, 0, 2} ELSE {None}),
             UpdateConnector(a, v)
      PROVE P
  <2>1. v \in {None, 0, 2}
    OBVIOUS
  <2> QED BY <1>2, <2>1 DEF Arrives
<1>3. \A c \in Calls : (\E p \in Procs, o \in Ops : Execute(c, p, o)) \/ TestDraft(c)
                         \/ (\E o \in Ops : TestOperation(c, o)) => P
  BY DEF Begins
<1>4. \A a \in Admins : (\E o \in Ops, n \in Names : CreateOperation(a, o, n) \/ UpdateOperation(a, o, n))
                         \/ (\E o \in Ops : DeleteOperation(a, o) \/ EnsureRegistered(a, o))
                         \/ DeleteConnector(a) \/ Reload(a) \/ OAuth2Start(a) => P
  BY DEF Arrives
<1>5. \A a \in Admins : OnCreated(a) \/ OnUpdated(a) \/ OnDeleted(a) \/ OnConnectorDeleted(a)
                         \/ OnRegister(a) \/ OnLoaded(a) => P
  BY DEF Hooks
<1> QED BY <1>1, <1>2, <1>3, <1>4, <1>5 DEF Next

LEMMA TypeInit == Init => TypeOK
<1> SUFFICES ASSUME Init PROVE TypeOK
  OBVIOUS
<1>1. PICK pr \in ProvidersOf[auth] :
        /\ idp = [rotates |-> pr[1], dates |-> pr[2], issued |-> 1, usable |-> {1}, lapsed |-> {}]
        /\ sessions = pr[3]
  BY DEF Init
<1>2. auth \in AuthTypes /\ pr \in BOOLEAN \X BOOLEAN \X BOOLEAN
  BY ConnectorsAssumption DEF Init
<1>3. /\ idp \in [rotates : BOOLEAN, dates : BOOLEAN, issued : Nat, usable : SUBSET Nat,
                  lapsed : SUBSET Nat]
      /\ sessions \in BOOLEAN
  BY <1>1, <1>2
<1> DEFINE ops == [o \in Ops |-> IF o = CHOOSE x \in Ops : TRUE
                                 THEN CHOOSE n \in Names : TRUE ELSE None]
           cr == Creds(1, 1, IF idp.dates THEN 1 ELSE 0, 1)
<1>4. ops \in Listings /\ cr \in Blobs
  <2>1. (CHOOSE n \in Names : TRUE) \in Names
    BY ConnectorsAssumption
  <2> QED BY <2>1 DEF Listings, Blobs, Creds
<1>5. db = [conn |-> TRUE, creds |-> cr, ops |-> ops]
  BY DEF Init
<1> HIDE DEF ops, cr
<1>6. db \in [conn : BOOLEAN, creds : Blobs, ops : Listings]
  BY <1>4, <1>5
<1>7. hist \in [stale : BOOLEAN, dropped : BOOLEAN, overlap : BOOLEAN]
  BY DEF Init
<1> QED BY <1>2, <1>3, <1>6, <1>7, EmptyTyped, BuiltTyped DEF Init, TypeOK

LEMMA TypeStep == TypeOK /\ [Next]_vars => TypeOK'
<1> SUFFICES ASSUME TypeOK, Next PROVE TypeOK'
  <2>1. CASE UNCHANGED vars
    BY <2>1 DEF TypeOK, vars
  <2> QED BY <2>1
<1>1. ASSUME NEW t \in 1..MaxLapsed, Lapse(t) PROVE TypeOK'
  <2>1. idp' = [idp EXCEPT !.lapsed = @ \cup {t}] /\ t \in Nat
    BY <1>1, ConnectorsAssumption DEF Lapse
  <2>2. idp' \in [rotates : BOOLEAN, dates : BOOLEAN, issued : Nat, usable : SUBSET Nat,
                  lapsed : SUBSET Nat]
    BY <2>1 DEF TypeOK
  <2> QED BY <1>1, <2>2 DEF Lapse, TypeOK, rows
<1>2. ASSUME NEW c \in Calls, NEW r \in CallRecords, call' = [call EXCEPT ![c] = r]
      PROVE  call' \in [Calls -> CallRecords]
  BY <1>2 DEF TypeOK
<1>3. ASSUME NEW c \in Calls, NEW res \in {"error", "raised"}
      PROVE  Done(call[c], res) \in CallRecords
  BY DoneTyped DEF TypeOK
<1>4. ASSUME NEW c \in Calls, Begins(c) PROVE TypeOK'
  <2>1. /\ call' \in [Calls -> CallRecords]
        /\ UNCHANGED <<auth, req, sessions, adm, tools, count, db, cache, lock, idp, hist>>
    BY <1>2, <1>4, BeginsTyped
  <2> QED BY <2>1 DEF TypeOK
<1>5. ASSUME NEW c \in Calls, Prepare(c) PROVE TypeOK'
  <2>1. /\ call' \in [Calls -> CallRecords]
        /\ UNCHANGED <<auth, req, sessions, adm, tools, count, db, cache, lock, idp, hist>>
    BY <1>2, <1>5, PrepareTyped
  <2> QED BY <2>1 DEF TypeOK
<1>6. ASSUME NEW c \in Calls, Acquire(c) PROVE TypeOK'
  <2>1. /\ call' \in [Calls -> CallRecords] /\ lock' \in [Procs -> Calls \cup {None}]
        /\ UNCHANGED <<auth, req, sessions, adm, tools, count, db, cache, idp, hist>>
    BY <1>2, <1>6, AcquireTyped
  <2> QED BY <2>1 DEF TypeOK
<1>7. ASSUME NEW c \in Calls, RefreshGranted(c) PROVE TypeOK'
  <2>1. /\ call' \in [Calls -> CallRecords] /\ lock' \in [Procs -> Calls \cup {None}]
        /\ UNCHANGED <<auth, req, sessions, adm, tools, count, db>>
        /\ Issue(call[c].creds.refresh)
        /\ hist' = [hist EXCEPT !.dropped = @ \/ ~sessions]
        /\ cache' = cache \/ cache' = [cache EXCEPT ![call[c].proc].creds = Patched(call[c].creds)]
    BY <1>2, <1>7, RefreshGrantedTyped
  <2>2. call[c].creds.refresh \in Nat /\ call[c].creds \in Blobs /\ call[c].proc \in Procs
    BY DEF TypeOK, CallRecords, Blobs
  <2>5. cache' \in [Procs -> [reg : BOOLEAN, creds : Blobs, ops : Listings]]
    <3>1. Patched(call[c].creds) \in Blobs
      BY <2>2, PatchedTyped
    <3> QED BY <2>1, <2>2, <3>1 DEF TypeOK
  <2>3. idp' \in [rotates : BOOLEAN, dates : BOOLEAN, issued : Nat, usable : SUBSET Nat,
                  lapsed : SUBSET Nat]
    BY <2>1, <2>2, IssueTyped
  <2>4. hist' \in [stale : BOOLEAN, dropped : BOOLEAN, overlap : BOOLEAN]
    BY <2>1 DEF TypeOK
  <2> QED BY <2>1, <2>3, <2>4, <2>5 DEF TypeOK
<1>8. ASSUME NEW c \in Calls, RefreshFails(c) PROVE TypeOK'
  <2>1. /\ call' \in [Calls -> CallRecords] /\ lock' \in [Procs -> Calls \cup {None}]
        /\ UNCHANGED <<auth, req, sessions, adm, tools, count, db, cache>>
        /\ \/ UNCHANGED <<idp, hist>>
           \/ /\ Issue(call[c].creds.refresh) /\ hist' = [hist EXCEPT !.dropped = TRUE]
    BY <1>2, <1>3, <1>8, RefreshFailsTyped
  <2>2. call[c].creds.refresh \in Nat
    BY DEF TypeOK, CallRecords, Blobs
  <2>3. idp' \in [rotates : BOOLEAN, dates : BOOLEAN, issued : Nat, usable : SUBSET Nat,
                  lapsed : SUBSET Nat]
    BY <2>1, <2>2, IssueTyped DEF TypeOK
  <2>4. hist' \in [stale : BOOLEAN, dropped : BOOLEAN, overlap : BOOLEAN]
    BY <2>1 DEF TypeOK
  <2> QED BY <2>1, <2>3, <2>4 DEF TypeOK
<1>9. ASSUME NEW c \in Calls, Persist(c) PROVE TypeOK'
  <2>1. /\ call' \in [Calls -> CallRecords]
        /\ db' \in {db, [db EXCEPT !.creds = call[c].got]}
        /\ hist' \in {[hist EXCEPT !.dropped = TRUE],
                      [hist EXCEPT !.stale = @ \/ db.creds.refresh # call[c].creds.refresh]}
        /\ UNCHANGED <<auth, req, sessions, adm, tools, count, cache, lock, idp>>
    BY <1>2, <1>9, PersistTyped
  <2>2. call[c].got \in Blobs
    BY DEF TypeOK, CallRecords
  <2>3. db' \in [conn : BOOLEAN, creds : Blobs, ops : Listings]
    BY <2>1, <2>2 DEF TypeOK
  <2>4. hist' \in [stale : BOOLEAN, dropped : BOOLEAN, overlap : BOOLEAN]
    BY <2>1 DEF TypeOK
  <2> QED BY <2>1, <2>3, <2>4 DEF TypeOK
<1>10. ASSUME NEW c \in Calls, NEW st, Attempt(c, st) PROVE TypeOK'
  <2>1. /\ call' \in [Calls -> CallRecords]
        /\ UNCHANGED <<auth, req, sessions, adm, tools, count, db, cache, lock, idp, hist>>
    BY <1>2, <1>10, AttemptTyped
  <2> QED BY <2>1 DEF TypeOK
<1>11. ASSUME NEW a \in Admins, Arrives(a) PROVE TypeOK'
  <2>1. PICK rec : Leaves(a, rec)
    BY <1>11, ArrivesTyped
  <2>2. /\ rec \in AdminRecords /\ Arrive(a, rec) /\ idp' = idp
        /\ db' \in [conn : BOOLEAN, creds : Blobs, ops : Listings]
    BY <2>1 DEF Leaves
  <2>3. /\ adm' \in [Admins -> AdminRecords]
        /\ hist' \in [stale : BOOLEAN, dropped : BOOLEAN, overlap : BOOLEAN]
        /\ UNCHANGED <<auth, req, sessions, lock, call, tools>>
    BY <2>2, ArriveTyped
  <2>4. cache' \in [Procs -> [reg : BOOLEAN, creds : Blobs, ops : Listings]]
    BY <1>11, ArrivesTyped, EmptyTyped DEF TypeOK
  <2> QED BY <2>2, <2>3, <2>4 DEF TypeOK
<1>12. ASSUME NEW a \in Admins, OAuth2Callback(a) PROVE TypeOK'
  <2>1. /\ adm' \in [Admins -> AdminRecords]
        /\ UNCHANGED <<auth, req, sessions, lock, rows, call, idp, hist>>
    BY <1>12, CallbackTyped DEF TypeOK
  <2> QED BY <2>1 DEF TypeOK, rows
<1>13. ASSUME NEW a \in Admins, Exchange(a) PROVE TypeOK'
  <2>0. UNCHANGED <<auth, req, sessions, lock, cache, call, tools, hist>>
    BY <1>13, ExchangeTyped
  <2>1. CASE adm' = [adm EXCEPT ![a] = NoAdmin] /\ UNCHANGED <<db, idp>>
    BY <2>0, <2>1, EmptyTyped DEF TypeOK
  <2>2. ASSUME NEW new \in Blobs,
               idp' = [idp EXCEPT !.issued = idp.issued + 1, !.usable = @ \cup {idp.issued + 1}],
               db' \in {db, [db EXCEPT !.creds = new]},
               adm' \in [Admins -> AdminRecords]
        PROVE  TypeOK'
    <3>1. idp.issued + 1 \in Nat
      BY DEF TypeOK
    <3>2. idp' \in [rotates : BOOLEAN, dates : BOOLEAN, issued : Nat, usable : SUBSET Nat,
                    lapsed : SUBSET Nat]
      BY <2>2, <3>1 DEF TypeOK
    <3>3. hist' \in [stale : BOOLEAN, dropped : BOOLEAN, overlap : BOOLEAN]
      BY <2>0 DEF TypeOK
    <3>4. db' \in [conn : BOOLEAN, creds : Blobs, ops : Listings]
      BY <2>2 DEF TypeOK
    <3> QED BY <2>0, <2>2, <3>2, <3>3, <3>4 DEF TypeOK
  <2>3. \A rec \in AdminRecords : [adm EXCEPT ![a] = rec] \in [Admins -> AdminRecords]
    BY DEF TypeOK
  <2>4. CASE \E new \in Blobs :
                 /\ new.refresh = idp.issued + 1
                 /\ idp' = [idp EXCEPT !.issued = idp.issued + 1,
                                       !.usable = @ \cup {idp.issued + 1}]
                 /\ \/ ~db.conn /\ db' = db /\ adm' = [adm EXCEPT ![a] = NoAdmin]
                    \/ /\ db.conn /\ db' = [db EXCEPT !.creds = new]
                       /\ \E rec \in AdminRecords :
                            /\ adm' = [adm EXCEPT ![a] = rec] /\ rec.kind = "register"
                            /\ rec.creds = new /\ rec.ops = db.ops
    BY <2>2, <2>3, <2>4, EmptyTyped
  <2> QED BY <1>13, <2>1, <2>4, ExchangeTyped
<1>14. ASSUME NEW a \in Admins, Hooks(a) PROVE TypeOK'
  <2>1. PICK reg \in [reg : BOOLEAN, creds : Blobs, ops : Listings],
             tls \in [Names -> Ops \cup {None}] : \E k : Hooked(a, k, reg, tls)
    BY <1>14, HooksTyped
  <2>2. /\ adm' = [adm EXCEPT ![a] = NoAdmin]
        /\ cache' = [cache EXCEPT ![Api] = reg] /\ tools' = tls
        /\ call' \in [Calls -> CallRecords]
        /\ UNCHANGED <<auth, req, sessions, lock, db, idp, hist>>
    BY <2>1, HookedTyped
  <2> QED BY <2>2, EmptyTyped DEF TypeOK
<1>15. ASSUME NEW p \in Procs, Restart(p) PROVE TypeOK'
  <2>1. db \in [conn : BOOLEAN, creds : Blobs, ops : Listings]
    BY DEF TypeOK
  <2>2. /\ cache' \in [Procs -> [reg : BOOLEAN, creds : Blobs, ops : Listings]]
        /\ tools' \in [Names -> Ops \cup {None}]
        /\ adm' \in [Admins -> AdminRecords]
    BY <1>15, <2>1, RestartTyped, BuiltTyped, EmptyTyped DEF TypeOK
  <2>3. /\ call' \in [Calls -> CallRecords] /\ lock' \in [Procs -> Calls \cup {None}]
        /\ hist' \in [stale : BOOLEAN, dropped : BOOLEAN, overlap : BOOLEAN]
        /\ UNCHANGED <<auth, req, sessions, db, idp>>
    BY <1>15, RestartTyped
  <2> QED BY <2>2, <2>3 DEF TypeOK
<1> QED BY <1>1, <1>4, <1>5, <1>6, <1>7, <1>8, <1>9, <1>10, <1>11, <1>12, <1>13, <1>14, <1>15,
          StepGroups

(* The connector's rows, caches, calls and requests have their types: a call's
   tokens and counters stay natural numbers through the retries of
   _execute_http, a request's names and operations stay the connector's. *)
THEOREM TypeCorrect == Spec => []TypeOK
<1>1. Init => TypeOK
  BY TypeInit
<1>2. TypeOK /\ [Next]_vars => TypeOK'
  BY TypeStep
<1> QED BY <1>1, <1>2, PTL DEF Spec

-----------------------------------------------------------------------------
(* Retry budgets *)

LEMMA NoCallBudgeted == Budgeted(NoCall)
<1>1. NoCall.pc = "idle" /\ NoCall.sent = 0 /\ NoCall.why = "prepare"
  BY DEF NoCall
<1>2. Attempts \in Nat
  BY ConnectorsAssumption
<1> QED BY <1>1, <1>2 DEF Budgeted, Forced

LEMMA DoneBudgeted ==
  ASSUME NEW cl \in CallRecords, Budgeted(cl), NEW res \in {"ok", "failed", "error", "raised", "lost"}
  PROVE  Budgeted(Done(cl, res))
<1> DEFINE r == Done(cl, res)
<1>1. r.pc = "done" /\ r.sent = cl.sent /\ r.used = cl.used
  BY DoneTyped
<1> HIDE DEF r
<1> QED BY <1>1 DEF Budgeted, Forced, r

\* The forced refresh is marked when the call goes on with its tokens.
LEMMA SpentBudgeted ==
  ASSUME NEW cl \in CallRecords, NEW r \in CallRecords, Budgeted(cl),
         cl.pc \in {"refresh", "persist"}, r.pc \in {"prepare", "send"},
         r.sent = cl.sent, r.left = cl.left, r.used = (cl.used \/ cl.why = "force")
  PROVE  Budgeted(r)
<1>1. /\ cl.sent \in Nat /\ cl.left \in Nat /\ cl.used \in BOOLEAN /\ r.used \in BOOLEAN
      /\ cl.why \in {"prepare", "force"} /\ Attempts \in Nat \ {0}
  BY ConnectorsAssumption DEF CallRecords
<1>2. CASE cl.why = "prepare"
  <2>1. r.used = cl.used
    BY <1>1, <1>2
  <2>2. ~Forced(cl) /\ ~Forced(r)
    BY <1>2 DEF Forced
  <2> QED BY <1>1, <2>1, <2>2 DEF Budgeted
<1>3. CASE cl.why = "force"
  <2>1. r.used = TRUE
    BY <1>1, <1>3
  <2>2. Forced(cl) /\ ~Forced(r)
    BY <1>3 DEF Forced
  <2>3. cl.sent + cl.left = (Attempts - 1) + 1 /\ cl.sent <= Attempts
    BY <1>1, <2>2 DEF Budgeted
  <2>4. r.sent + r.left = (Attempts - 1) + 1 /\ r.sent <= Attempts + 1
    BY <1>1, <2>3
  <2> QED BY <2>1, <2>2, <2>4 DEF Budgeted
<1> QED BY <1>1, <1>2, <1>3

LEMMA BudgetStep == TypeOK /\ BudgetInv /\ [Next]_vars => BudgetInv'
<1> SUFFICES ASSUME TypeOK, BudgetInv, Next PROVE BudgetInv'
  <2>1. CASE UNCHANGED vars
    BY <2>1 DEF BudgetInv, vars
  <2> QED BY <2>1
<1>0. ASSUME NEW c \in Calls
      PROVE  /\ call[c] \in CallRecords /\ call[c].sent \in Nat /\ call[c].left \in Nat
             /\ call[c].used \in BOOLEAN /\ call[c].why \in {"prepare", "force"}
             /\ Attempts \in Nat \ {0} /\ Budgeted(call[c])
  BY ConnectorsAssumption DEF TypeOK, CallRecords, BudgetInv
<1>1. ASSUME NEW c \in Calls, NEW r \in CallRecords, call' = [call EXCEPT ![c] = r], Budgeted(r)
      PROVE  BudgetInv'
  BY <1>0, <1>1 DEF BudgetInv, TypeOK
<1>2. ASSUME call' = call PROVE BudgetInv'
  BY <1>2 DEF BudgetInv
<1>3. ASSUME NEW c \in Calls, Begins(c) PROVE BudgetInv'
  <2>1. PICK r \in CallRecords :
          /\ call' = [call EXCEPT ![c] = r]
          /\ \/ r = Done(NoCall, "raised")
             \/ /\ r.pc = "prepare" /\ r.why = "prepare" /\ ~r.used /\ r.sent = 0
                /\ r.left = Attempts - 1
    BY <1>3, BeginsTyped
  <2>2. CASE r = Done(NoCall, "raised")
    BY <1>1, <2>1, <2>2, EmptyTyped, NoCallBudgeted, DoneBudgeted
  <2>3. CASE r.pc = "prepare" /\ r.why = "prepare" /\ ~r.used /\ r.sent = 0
             /\ r.left = Attempts - 1
    <3>1. Budgeted(r)
      BY <1>0, <2>3 DEF Budgeted, Forced
    <3> QED BY <1>1, <2>1, <3>1
  <2> QED BY <2>1, <2>2, <2>3
<1>4. ASSUME NEW c \in Calls, Prepare(c) PROVE BudgetInv'
  <2>1. call[c].pc = "prepare"
    BY <1>4, PrepareTyped
  <2>2. PICK r \in CallRecords :
          /\ call' = [call EXCEPT ![c] = r]
          /\ \/ r = Done(call[c], "error")
             \/ r.pc \in {"send", "wait"} /\ r.why = "prepare" /\ Keeps(r, call[c])
    BY <1>4, PrepareTyped
  <2>3. CASE r = Done(call[c], "error")
    BY <1>0, <1>1, <2>2, <2>3, DoneBudgeted
  <2>4. CASE r.pc \in {"send", "wait"} /\ r.why = "prepare" /\ Keeps(r, call[c])
    <3>1. Budgeted(r)
      BY <1>0, <2>1, <2>4 DEF Budgeted, Forced, Keeps
    <3> QED BY <1>1, <2>2, <3>1
  <2> QED BY <2>2, <2>3, <2>4
<1>5. ASSUME NEW c \in Calls, Acquire(c) PROVE BudgetInv'
  <2>1. call[c].pc = "wait"
    BY <1>5, AcquireTyped
  <2>2. PICK r \in CallRecords :
          /\ call' = [call EXCEPT ![c] = r]
          /\ r.pc = "refresh" \/ (r.pc = "send" /\ call[c].why = "prepare")
          /\ r.why = call[c].why /\ Keeps(r, call[c])
    BY <1>5, AcquireTyped
  <2>3. Budgeted(r)
    BY <1>0, <2>1, <2>2 DEF Budgeted, Forced, Keeps
  <2> QED BY <1>1, <2>2, <2>3
<1>6. ASSUME NEW c \in Calls, RefreshGranted(c) PROVE BudgetInv'
  <2>1. call[c].pc = "refresh"
    BY <1>6, RefreshGrantedTyped
  <2>2. PICK r \in CallRecords :
          /\ call' = [call EXCEPT ![c] = r]
          /\ r.sent = call[c].sent /\ r.left = call[c].left
          /\ \/ /\ r.pc = "persist" /\ r.used = call[c].used /\ r.why = call[c].why
             \/ /\ r.pc \in {"prepare", "send"}
                /\ r.used = (call[c].used \/ call[c].why = "force")
    BY <1>6, RefreshGrantedTyped
  <2>3. Budgeted(r)
    <3>1. CASE r.pc = "persist" /\ r.used = call[c].used /\ r.why = call[c].why
      BY <1>0, <2>1, <2>2, <3>1 DEF Budgeted, Forced
    <3>2. CASE r.pc \in {"prepare", "send"} /\ r.used = (call[c].used \/ call[c].why = "force")
      BY <1>0, <2>1, <2>2, <3>2, SpentBudgeted
    <3> QED BY <2>2, <3>1, <3>2
  <2> QED BY <1>1, <2>2, <2>3
<1>7. ASSUME NEW c \in Calls, RefreshFails(c) PROVE BudgetInv'
  <2>1. PICK res \in {"error", "raised"} : call' = [call EXCEPT ![c] = Done(call[c], res)]
    BY <1>7, RefreshFailsTyped
  <2>2. Done(call[c], res) \in CallRecords /\ Budgeted(Done(call[c], res))
    BY <1>0, DoneTyped, DoneBudgeted
  <2> QED BY <1>1, <2>1, <2>2
<1>8. ASSUME NEW c \in Calls, Persist(c) PROVE BudgetInv'
  <2>1. call[c].pc = "persist"
    BY <1>8, PersistTyped
  <2>2. PICK r \in CallRecords :
          /\ call' = [call EXCEPT ![c] = r]
          /\ \/ r = Done(call[c], "raised")
             \/ /\ r.pc \in {"prepare", "send"} /\ r.sent = call[c].sent
                /\ r.left = call[c].left
                /\ r.used = (call[c].used \/ call[c].why = "force")
    BY <1>8, PersistTyped
  <2>3. CASE r = Done(call[c], "raised")
    BY <1>0, <1>1, <2>2, <2>3, DoneBudgeted
  <2>4. CASE /\ r.pc \in {"prepare", "send"} /\ r.sent = call[c].sent
             /\ r.left = call[c].left
             /\ r.used = (call[c].used \/ call[c].why = "force")
    <3>1. Budgeted(r)
      BY <1>0, <2>1, <2>4, SpentBudgeted
    <3> QED BY <1>1, <2>2, <3>1
  <2> QED BY <2>2, <2>3, <2>4
<1>9. ASSUME NEW c \in Calls, NEW st, Attempt(c, st) PROVE BudgetInv'
  <2>1. call[c].pc = "send"
    BY <1>9, AttemptTyped
  <2>2. PICK r \in CallRecords :
          /\ call' = [call EXCEPT ![c] = r]
          /\ r.sent = call[c].sent + 1 /\ r.used = call[c].used
          /\ \/ r.pc = "done"
             \/ /\ r.pc = "wait" /\ r.why = "force" /\ ~call[c].used /\ r.left = call[c].left
             \/ /\ r.pc = "prepare" /\ r.left = call[c].left - 1 /\ call[c].left > 0
    BY <1>9, AttemptTyped
  <2>3. Budgeted(r)
    <3>1. /\ call[c].sent + call[c].left = (Attempts - 1) + (IF call[c].used THEN 1 ELSE 0)
          /\ call[c].sent \in Nat /\ call[c].left \in Nat /\ call[c].used \in BOOLEAN
          /\ Attempts \in Nat
      BY <1>0, <2>1 DEF Budgeted, Forced
    <3>2. r.sent <= Attempts + (IF r.used THEN 1 ELSE 0)
      BY <2>2, <3>1
    <3> QED BY <2>2, <3>1, <3>2 DEF Budgeted, Forced
  <2> QED BY <1>1, <2>2, <2>3
<1>10. ASSUME NEW a \in Admins, Hooks(a) PROVE BudgetInv'
  <2>1. \A c \in Calls : call'[c].pc = call[c].pc /\ call'[c].why = call[c].why
                         /\ Keeps(call'[c], call[c])
    BY <1>10, HooksTyped, HookedTyped
  <2>2. ASSUME NEW c \in Calls PROVE Budgeted(call'[c])
    BY <1>0, <2>1 DEF Budgeted, Forced, Keeps
  <2> QED BY <2>2 DEF BudgetInv
<1>11. ASSUME NEW p \in Procs, Restart(p) PROVE BudgetInv'
  <2>1. \A c \in Calls : call'[c] = call[c] \/ call'[c] = Done(call[c], "lost")
    BY <1>11, RestartTyped
  <2>2. ASSUME NEW c \in Calls PROVE Budgeted(call'[c])
    BY <1>0, <2>1, DoneBudgeted
  <2> QED BY <2>2 DEF BudgetInv
<1>12. ASSUME NEW t \in 1..MaxLapsed, Lapse(t) PROVE BudgetInv'
  BY <1>2, <1>12 DEF Lapse
<1>13. ASSUME NEW a \in Admins, Arrives(a) PROVE BudgetInv'
  BY <1>2, <1>13, ArrivesTyped, ArriveTyped DEF Leaves
<1>14. ASSUME NEW a \in Admins, OAuth2Callback(a) PROVE BudgetInv'
  BY <1>2, <1>14, CallbackTyped
<1>15. ASSUME NEW a \in Admins, Exchange(a) PROVE BudgetInv'
  BY <1>2, <1>15, ExchangeTyped
<1> QED BY <1>3, <1>4, <1>5, <1>6, <1>7, <1>8, <1>9, <1>10, <1>11, <1>12, <1>13, <1>14, <1>15,
          StepGroups

(* However a call fails, is refused, waits for a lock or is restarted under,
   it sends at most max_attempts requests, and one more after its only forced
   refresh: what it has sent and what it may still send add up. *)
THEOREM RetryBudgetsAddUp == Spec => []AttemptsAreBounded
<1>1. Init => BudgetInv
  BY NoCallBudgeted DEF Init, BudgetInv
<1>2. TypeOK /\ BudgetInv /\ [Next]_vars => BudgetInv'
  BY BudgetStep
<1>3. BudgetInv => AttemptsAreBounded
  BY DEF BudgetInv, Budgeted, AttemptsAreBounded
<1> QED BY <1>1, <1>2, <1>3, TypeCorrect, PTL DEF Spec

-----------------------------------------------------------------------------
(* The registry and the rows *)

\* What a process builds from the rows is what they hold.
LEMMA BuiltCurrent ==
  ASSUME db \in [conn : BOOLEAN, creds : Blobs, ops : Listings]
  PROVE  Current(db.conn, db.ops, Loaded.reg, Loaded.ops, BuiltTools)
<1>1. \A n \in Names : BuiltTools[n] # None => db.ops[BuiltTools[n]] = n
  BY BuiltTyped
<1>2. CASE db.conn
  <2>1. Loaded = [reg |-> TRUE, creds |-> db.creds, ops |-> db.ops]
    BY <1>2 DEF Loaded
  <2> QED BY <1>1, <1>2, <2>1 DEF Current
<1>3. CASE ~db.conn
  <2>1. Loaded = Unregistered
    BY <1>3 DEF Loaded
  <2>2. Loaded.reg = FALSE /\ Loaded.ops = [o \in Ops |-> None]
    BY <2>1 DEF Unregistered
  <2> QED BY <1>1, <2>2 DEF Current
<1> QED BY <1>2, <1>3

\* Calls, the clock and the other processes touch nothing of it.
LEMMA HooksFrame ==
  ASSUME HooksInv, db'.conn = db.conn, db'.ops = db.ops, cache'[Api].reg = cache[Api].reg,
         cache'[Api].ops = cache[Api].ops, tools' = tools, adm' = adm,
         hist'.overlap = hist.overlap
  PROVE  HooksInv'
<1>1. OneAtATime' /\ RowsInv'
  BY DEF HooksInv, OneAtATime, RowsInv
<1> QED BY <1>1 DEF HooksInv

\* A request alone at work goes on, or is over.
LEMMA HooksGo ==
  ASSUME TypeOK, HooksInv, RowsInv', NEW a \in Admins, NEW rec, adm[a].kind # "idle",
         adm' = [adm EXCEPT ![a] = rec], hist'.overlap = hist.overlap,
         Behind(adm[a], db.conn, db.ops, cache[Api].reg, cache[Api].ops, tools) =>
           Behind(rec, db'.conn, db'.ops, cache'[Api].reg, cache'[Api].ops, tools')
  PROVE  HooksInv'
<1>1. ASSUME ~hist.overlap, NEW b \in Admins, b # a PROVE adm'[b].kind = "idle"
  BY <1>1 DEF HooksInv, OneAtATime, TypeOK
<1>2. adm'[a] = rec
  BY DEF TypeOK
<1>3. OneAtATime'
  BY <1>1 DEF OneAtATime
<1>4. ASSUME ~hist.overlap
      PROVE  Behind(rec, db'.conn, db'.ops, cache'[Api].reg, cache'[Api].ops, tools')
  BY <1>4 DEF HooksInv
<1>5. ASSUME ~hist.overlap, rec.kind = "idle"
      PROVE  Current(db'.conn, db'.ops, cache'[Api].reg, cache'[Api].ops, tools')
  BY <1>4, <1>5 DEF Behind
<1> QED BY <1>1, <1>2, <1>3, <1>4, <1>5 DEF HooksInv

\* A request arrives when none is at work, or it overlaps.
LEMMA HooksArrive ==
  ASSUME TypeOK, HooksInv, RowsInv', NEW a \in Admins, NEW rec, Leaves(a, rec), rec.kind # "idle",
         Current(db.conn, db.ops, cache[Api].reg, cache[Api].ops, tools) =>
           Behind(rec, db'.conn, db'.ops, cache'[Api].reg, cache'[Api].ops, tools)
  PROVE  HooksInv'
<1>1. /\ adm[a].kind = "idle" /\ adm' = [adm EXCEPT ![a] = rec] /\ tools' = tools
      /\ hist'.overlap = (hist.overlap \/ \E b \in Admins \ {a} : adm[b].kind # "idle")
  BY ArriveTyped DEF Leaves
<1>2. ASSUME ~hist'.overlap, NEW b \in Admins, b # a
      PROVE  adm'[b].kind = "idle" /\ adm[b].kind = "idle"
  BY <1>1, <1>2 DEF TypeOK
<1>3. adm'[a] = rec
  BY <1>1 DEF TypeOK
<1>4. OneAtATime'
  BY <1>2 DEF OneAtATime
<1>5. ASSUME ~hist'.overlap
      PROVE  Behind(rec, db'.conn, db'.ops, cache'[Api].reg, cache'[Api].ops, tools')
  <2>1. ~hist.overlap /\ \A b \in Admins : adm[b].kind = "idle"
    BY <1>1, <1>2, <1>5
  <2> QED BY <1>1, <2>1 DEF HooksInv
<1> QED BY <1>2, <1>3, <1>4, <1>5 DEF HooksInv

LEMMA HooksArrives ==
  ASSUME TypeOK, HooksInv, NEW a \in Admins, Arrives(a)
  PROVE  HooksInv'
<1> DEFINE ops == db.ops
           held == cache[Api].ops
           reg == cache[Api].reg
<1>0. /\ ops \in Listings /\ held \in Listings /\ tools \in [Names -> Ops \cup {None}]
      /\ RowsInv /\ None \notin Ops /\ None \notin Names
  BY ConnectorsAssumption DEF TypeOK, HooksInv
<1>1. ASSUME NEW o \in Ops, NEW n \in Names, CreateOperation(a, o, n) PROVE HooksInv'
  <2>0. /\ \E rec : Leaves(a, rec) /\ rec.kind = "create" /\ rec.op = o /\ rec.new = n
        /\ db.conn /\ db'.conn = db.conn /\ cache' = cache
        /\ db.ops[o] = None /\ n \notin Range(db.ops) /\ db'.ops = [db.ops EXCEPT ![o] = n]
    BY <1>1, CreateTyped
  <2>1. PICK rec : Leaves(a, rec) /\ rec.kind = "create" /\ rec.op = o /\ rec.new = n
    BY <2>0
  <2>2. /\ db.conn /\ db'.conn = db.conn /\ cache' = cache
        /\ ops[o] = None /\ n \notin Range(ops) /\ db'.ops = [ops EXCEPT ![o] = n]
    BY <2>0
  <2>3. RowsInv'
    <3>1. \A x \in Ops : ops[x] # n
      BY <1>0, <2>2 DEF Range, Listings
    <3>2. \A x \in Ops : db'.ops[x] = (IF x = o THEN n ELSE ops[x])
      BY <1>0, <2>2 DEF Listings
    <3> QED BY <1>0, <2>2, <3>1, <3>2 DEF RowsInv
  <2>4. ASSUME Current(db.conn, ops, reg, held, tools)
        PROVE  Behind(rec, db'.conn, db'.ops, reg, held, tools)
    <3>1. Current(db'.conn, db'.ops, reg, held, tools)
      BY <1>0, <2>2, <2>4 DEF Current, Listings
    <3> QED BY <1>0, <2>1, <2>2, <3>1 DEF Behind, Listings
  <2> QED BY <2>1, <2>2, <2>3, <2>4, HooksArrive
<1>2. ASSUME NEW o \in Ops, NEW n \in Names, UpdateOperation(a, o, n) PROVE HooksInv'
  <2>0. /\ \E rec : Leaves(a, rec) /\ rec.kind = "update" /\ rec.op = o /\ rec.new = n
                     /\ rec.old = db.ops[o]
        /\ db'.conn = db.conn /\ cache' = cache
        /\ db.ops[o] # None /\ n \notin Range(db.ops) \ {db.ops[o]}
        /\ db'.ops = [db.ops EXCEPT ![o] = n]
    BY <1>2, UpdateTyped
  <2>1. PICK rec : Leaves(a, rec) /\ rec.kind = "update" /\ rec.op = o /\ rec.new = n
                   /\ rec.old = ops[o]
    BY <2>0
  <2>2. /\ db'.conn = db.conn /\ cache' = cache
        /\ ops[o] # None /\ n \notin Range(ops) \ {ops[o]} /\ db'.ops = [ops EXCEPT ![o] = n]
    BY <2>0
  <2>3. RowsInv'
    <3>1. \A x \in Ops : ops[x] = n => ops[x] = ops[o]
      BY <1>0, <2>2 DEF Range, Listings
    <3>2. \A x \in Ops : db'.ops[x] = (IF x = o THEN n ELSE ops[x])
      BY <1>0, <2>2 DEF Listings
    <3>3. db'.conn
      BY <1>0, <2>2 DEF RowsInv
    <3> QED BY <1>0, <2>2, <3>1, <3>2, <3>3 DEF RowsInv
  <2>4. ASSUME Current(db.conn, ops, reg, held, tools)
        PROVE  Behind(rec, db'.conn, db'.ops, reg, held, tools)
    <3>1. /\ reg => db'.conn
          /\ \A x \in Ops \ {o} : held[x] # None => held[x] = db'.ops[x]
          /\ \A m \in Names : tools[m] # None => db'.ops[tools[m]] = m \/ (tools[m] = o /\ m = ops[o])
      BY <1>0, <2>2, <2>4 DEF Current, Listings
    <3>2. ops[o] \in Names /\ db'.ops[o] = n
      BY <1>0, <2>2 DEF Listings
    <3> QED BY <2>1, <3>1, <3>2 DEF Behind
  <2> QED BY <2>1, <2>2, <2>3, <2>4, HooksArrive
<1>3. ASSUME NEW o \in Ops, DeleteOperation(a, o) PROVE HooksInv'
  <2>1. PICK rec : Leaves(a, rec) /\ rec.kind = "delete" /\ rec.op = o /\ rec.old = ops[o]
    BY <1>3, DeleteTyped
  <2>2. /\ db'.conn = db.conn /\ cache' = cache
        /\ ops[o] # None /\ db'.ops = [ops EXCEPT ![o] = None]
    BY <1>3, DeleteTyped
  <2>3. RowsInv'
    BY <1>0, <2>2 DEF RowsInv, Listings
  <2>4. ASSUME Current(db.conn, ops, reg, held, tools)
        PROVE  Behind(rec, db'.conn, db'.ops, reg, held, tools)
    <3>1. /\ reg => db'.conn
          /\ \A x \in Ops \ {o} : held[x] # None => held[x] = db'.ops[x]
          /\ \A m \in Names : tools[m] # None => db'.ops[tools[m]] = m \/ (tools[m] = o /\ m = ops[o])
      BY <1>0, <2>2, <2>4 DEF Current, Listings
    <3>2. ops[o] \in Names /\ db'.ops[o] = None
      BY <1>0, <2>2 DEF Listings
    <3> QED BY <2>1, <3>1, <3>2 DEF Behind
  <2> QED BY <2>1, <2>2, <2>3, <2>4, HooksArrive
<1>4. ASSUME NEW o \in Ops, EnsureRegistered(a, o) PROVE HooksInv'
  <2>1. PICK rec : /\ Leaves(a, rec) /\ rec.kind = "register"
                   /\ \A x \in Ops : rec.ops[x] # None => rec.ops[x] = ops[x]
    BY <1>4, EnsureTyped
  <2>2. ops[o] # None /\ db' = db /\ cache' = cache
    BY <1>4, EnsureTyped
  <2>3. RowsInv' /\ db.conn
    BY <1>0, <2>2 DEF RowsInv
  <2>4. Current(db.conn, ops, reg, held, tools) => Behind(rec, db'.conn, db'.ops, reg, held, tools)
    BY <2>1, <2>2, <2>3 DEF Behind
  <2> QED BY <2>1, <2>2, <2>3, <2>4, HooksArrive
<1>5. ASSUME NEW v \in {None, 0, 2}, UpdateConnector(a, v) PROVE HooksInv'
  <2>1. PICK rec : Leaves(a, rec) /\ rec.kind = "register" /\ rec.ops = ops
    BY <1>5, UpdateConnectorTyped
  <2>2. db.conn /\ db'.conn = db.conn /\ cache' = cache /\ db'.ops = ops
    BY <1>5, UpdateConnectorTyped
  <2>3. RowsInv'
    BY <1>0, <2>2 DEF RowsInv
  <2>4. Current(db.conn, ops, reg, held, tools) => Behind(rec, db'.conn, db'.ops, reg, held, tools)
    BY <2>1, <2>2 DEF Behind
  <2> QED BY <2>1, <2>2, <2>3, <2>4, HooksArrive
<1>6. ASSUME DeleteConnector(a) PROVE HooksInv'
  <2>1. PICK rec : Leaves(a, rec) /\ rec.kind = "drop" /\ rec.ops = ops
    BY <1>6, DeleteConnectorTyped
  <2>2. ~db'.conn /\ cache' = cache /\ db'.ops = [o \in Ops |-> None]
    BY <1>6, DeleteConnectorTyped
  <2>3. RowsInv'
    BY <2>2 DEF RowsInv
  <2>4. ASSUME Current(db.conn, ops, reg, held, tools)
        PROVE  Behind(rec, db'.conn, db'.ops, reg, held, tools)
    <3>1. \A n \in Names : tools[n] # None => n \in Range(ops)
      BY <1>0, <2>4 DEF Current, Listings, Range
    <3> QED BY <2>1, <2>2, <3>1 DEF Behind
  <2> QED BY <2>1, <2>2, <2>3, <2>4, HooksArrive
<1>7. ASSUME Reload(a) PROVE HooksInv'
  <2>1. PICK rec : Leaves(a, rec) /\ rec.kind = "load" /\ rec.ops = ops
    BY <1>7, ReloadTyped
  <2>2. db.conn /\ db' = db /\ cache' = [cache EXCEPT ![Api] = Unregistered]
    BY <1>7, ReloadTyped
  <2>3. RowsInv'
    BY <1>0, <2>2 DEF RowsInv
  <2>4. cache'[Api].reg = FALSE /\ cache'[Api].ops = [o \in Ops |-> None]
    BY <2>2, ConnectorsAssumption DEF TypeOK, Unregistered
  <2>5. ASSUME Current(db.conn, ops, reg, held, tools)
        PROVE  Behind(rec, db'.conn, db'.ops, cache'[Api].reg, cache'[Api].ops, tools)
    <3>1. Current(db'.conn, db'.ops, cache'[Api].reg, cache'[Api].ops, tools)
      BY <2>2, <2>4, <2>5 DEF Current
    <3> QED BY <2>1, <2>2, <3>1 DEF Behind
  <2> QED BY <2>1, <2>3, <2>5, HooksArrive
<1>8. ASSUME OAuth2Start(a) PROVE HooksInv'
  <2>1. PICK rec : Leaves(a, rec) /\ rec.kind = "popup"
    BY <1>8, StartTyped
  <2>2. db' = db /\ cache' = cache
    BY <1>8, StartTyped
  <2>3. RowsInv'
    BY <1>0, <2>2 DEF RowsInv
  <2>4. Current(db.conn, ops, reg, held, tools) => Behind(rec, db'.conn, db'.ops, reg, held, tools)
    BY <2>1, <2>2 DEF Behind
  <2> QED BY <2>1, <2>2, <2>3, <2>4, HooksArrive
<1> QED BY <1>1, <1>2, <1>3, <1>4, <1>5, <1>6, <1>7, <1>8 DEF Arrives

\* The hooks put right what their commits left behind.
LEMMA HooksHooks ==
  ASSUME TypeOK, HooksInv, NEW a \in Admins, Hooks(a)
  PROVE  HooksInv'
<1> DEFINE ops == db.ops
           held == cache[Api].ops
           R == [reg : BOOLEAN, creds : Blobs, ops : Listings]
           T == [Names -> Ops \cup {None}]
           r == adm[a]
<1>0. /\ ops \in Listings /\ held \in Listings /\ tools \in T /\ cache[Api] \in R
      /\ r.creds \in Blobs /\ r.ops \in Listings
      /\ RowsInv /\ None \notin Ops /\ None \notin Names
  BY ConnectorsAssumption DEF TypeOK, HooksInv, AdminRecords
<1>1. NoAdmin.kind = "idle"
  BY DEF NoAdmin
<1>2. ASSUME NEW reg \in R, NEW tls \in T, NEW k, k # "idle", Hooked(a, k, reg, tls),
             r.kind = k /\ Behind(r, db.conn, ops, cache[Api].reg, held, tools) =>
               Current(db.conn, ops, reg.reg, reg.ops, tls)
      PROVE  HooksInv'
  <2>1. /\ r.kind = k /\ adm' = [adm EXCEPT ![a] = NoAdmin]
        /\ cache' = [cache EXCEPT ![Api] = reg] /\ tools' = tls /\ db' = db /\ hist' = hist
    BY <1>2, HookedTyped
  <2>2. cache'[Api] = reg /\ RowsInv'
    BY <1>0, <2>1, ConnectorsAssumption DEF TypeOK, RowsInv
  <2>3. Behind(r, db.conn, ops, cache[Api].reg, held, tools) =>
          Behind(NoAdmin, db'.conn, db'.ops, cache'[Api].reg, cache'[Api].ops, tools')
    BY <1>1, <1>2, <2>1, <2>2 DEF Behind
  <2> QED BY <1>2, <2>1, <2>2, <2>3, HooksGo
<1>3. CASE OnCreated(a)
  <2>1. Hooked(a, "create", cache[Api], Attach(tools, r.new, r.op)) /\ r.kind = "create"
    BY <1>3 DEF OnCreated, Hooked
  <2>2. Attach(tools, r.new, r.op) \in T
    BY <1>0 DEF Attach, TypeOK, AdminRecords
  <2>3. ASSUME Behind(r, db.conn, ops, cache[Api].reg, held, tools)
        PROVE  Current(db.conn, ops, cache[Api].reg, held, Attach(tools, r.new, r.op))
    <3>1. /\ Current(db.conn, ops, cache[Api].reg, held, tools)
          /\ r.op \in Ops /\ r.new \in Names /\ ops[r.op] = r.new
      BY <2>1, <2>3 DEF Behind
    <3> QED BY <1>0, <3>1 DEF Current, Attach
  <2> QED BY <1>0, <1>2, <2>1, <2>2, <2>3
<1>4. CASE OnUpdated(a)
  <2> DEFINE one == [o \in Ops |-> IF o = r.op THEN r.new ELSE None]
             reg == Register(cache[Api], r.creds, one)
  <2>1. Hooked(a, "update", reg, Reattached(a)) /\ r.kind = "update"
    BY <1>4 DEF OnUpdated, Hooked
  <2>2. one \in Listings
    BY DEF Listings, TypeOK, AdminRecords
  <2>3. /\ reg \in R /\ reg.reg = TRUE
        /\ reg.ops = [o \in Ops |-> IF one[o] # None THEN one[o] ELSE held[o]]
    <3> HIDE DEF one
    <3> QED BY <1>0, <2>2, RegisterTyped DEF Register
  <2>4. Reattached(a) \in T
    BY <1>0 DEF Reattached, Attach, Detach, TypeOK, AdminRecords
  <2>5. ASSUME Behind(r, db.conn, ops, cache[Api].reg, held, tools)
        PROVE  Current(db.conn, ops, reg.reg, reg.ops, Reattached(a))
    <3>1. /\ r.op \in Ops /\ r.old \in Names /\ r.new \in Names /\ ops[r.op] = r.new
          /\ \A o \in Ops \ {r.op} : held[o] # None => held[o] = ops[o]
          /\ \A n \in Names : tools[n] # None => ops[tools[n]] = n \/ (tools[n] = r.op /\ n = r.old)
      BY <2>1, <2>5 DEF Behind
    <3>2. db.conn
      BY <1>0, <3>1 DEF RowsInv
    <3>3. \A o \in Ops : reg.ops[o] = (IF o = r.op THEN r.new ELSE held[o])
      BY <1>0, <2>3, <3>1
    <3>4. \A n \in Names : Reattached(a)[n] = (IF n = r.new THEN r.op
                                               ELSE IF n = r.old THEN None ELSE tools[n])
      BY <1>0, <3>1 DEF Reattached, Attach, Detach
    <3>5. \A o \in Ops : reg.ops[o] # None => reg.ops[o] = ops[o]
      BY <3>1, <3>3
    <3>6. \A n \in Names : Reattached(a)[n] # None => ops[Reattached(a)[n]] = n
      BY <3>1, <3>4
    <3> QED BY <3>2, <3>5, <3>6 DEF Current
  <2> HIDE DEF reg
  <2> QED BY <1>2, <2>1, <2>3, <2>4, <2>5
<1>5. CASE OnDeleted(a)
  <2> DEFINE reg == [cache[Api] EXCEPT !.ops[r.op] = None]
             tls == Detach(tools, {r.old})
  <2>1. Hooked(a, "delete", reg, tls) /\ r.kind = "delete"
    BY <1>5 DEF OnDeleted, Hooked
  <2>2. reg \in R /\ reg.reg = cache[Api].reg /\ reg.ops = [held EXCEPT ![r.op] = None]
    BY <1>0 DEF Listings
  <2>3. tls \in T /\ \A n \in Names : tls[n] = (IF n = r.old THEN None ELSE tools[n])
    BY <1>0 DEF Detach
  <2> HIDE DEF reg, tls
  <2>4. ASSUME Behind(r, db.conn, ops, cache[Api].reg, held, tools)
        PROVE  Current(db.conn, ops, reg.reg, reg.ops, tls)
    <3>1. /\ r.op \in Ops
          /\ cache[Api].reg => db.conn
          /\ \A o \in Ops \ {r.op} : held[o] # None => held[o] = ops[o]
          /\ \A n \in Names : tools[n] # None => ops[tools[n]] = n \/ (tools[n] = r.op /\ n = r.old)
      BY <2>1, <2>4 DEF Behind
    <3>2. \A o \in Ops : reg.ops[o] = (IF o = r.op THEN None ELSE held[o])
      BY <1>0, <2>2, <3>1 DEF Listings
    <3>3. \A o \in Ops : reg.ops[o] # None => reg.ops[o] = ops[o]
      BY <3>1, <3>2
    <3>4. \A n \in Names : tls[n] # None => ops[tls[n]] = n
      BY <2>3, <3>1
    <3> QED BY <2>2, <3>1, <3>3, <3>4 DEF Current
  <2> QED BY <1>2, <2>1, <2>2, <2>3, <2>4
<1>6. CASE OnConnectorDeleted(a)
  <2> DEFINE tls == Detach(tools, Range(r.ops))
  <2>1. Hooked(a, "drop", Unregistered, tls) /\ r.kind = "drop"
    BY <1>6 DEF OnConnectorDeleted, Hooked
  <2>2. /\ Unregistered \in R /\ Unregistered.reg = FALSE
        /\ Unregistered.ops = [o \in Ops |-> None]
    BY EmptyTyped DEF Unregistered
  <2>3. tls \in T /\ \A n \in Names : tls[n] = (IF n \in Range(r.ops) THEN None ELSE tools[n])
    BY <1>0 DEF Detach
  <2> HIDE DEF tls
  <2>4. ASSUME Behind(r, db.conn, ops, cache[Api].reg, held, tools)
        PROVE  Current(db.conn, ops, Unregistered.reg, Unregistered.ops, tls)
    <3>1. \A n \in Names : tools[n] # None => n \in Range(r.ops)
      BY <2>1, <2>4 DEF Behind
    <3> QED BY <2>2, <2>3, <3>1 DEF Current
  <2> QED BY <1>2, <2>1, <2>2, <2>3, <2>4
<1>7. CASE OnRegister(a)
  <2> DEFINE reg == Register(cache[Api], r.creds, r.ops)
  <2>1. Hooked(a, "register", reg, tools) /\ r.kind = "register"
    BY <1>7 DEF OnRegister, Hooked
  <2>2. /\ reg \in R /\ reg.reg = TRUE
        /\ reg.ops = [o \in Ops |-> IF r.ops[o] # None THEN r.ops[o] ELSE held[o]]
    BY <1>0, RegisterTyped DEF Register
  <2> HIDE DEF reg
  <2>3. ASSUME Behind(r, db.conn, ops, cache[Api].reg, held, tools)
        PROVE  Current(db.conn, ops, reg.reg, reg.ops, tools)
    <3>1. /\ Current(db.conn, ops, cache[Api].reg, held, tools) /\ db.conn
          /\ \A o \in Ops : r.ops[o] # None => r.ops[o] = ops[o]
      BY <2>1, <2>3 DEF Behind
    <3> QED BY <2>2, <3>1 DEF Current
  <2> QED BY <1>0, <1>2, <2>1, <2>2, <2>3
<1>8. CASE OnLoaded(a)
  <2> DEFINE reg == Register(Unregistered, r.creds, r.ops)
  <2>1. Hooked(a, "load", reg, tools) /\ r.kind = "load"
    BY <1>8 DEF OnLoaded, Hooked
  <2>2. Unregistered \in R /\ Unregistered.ops = [o \in Ops |-> None]
    BY EmptyTyped DEF Unregistered
  <2>3. /\ reg \in R /\ reg.reg = TRUE
        /\ reg.ops = [o \in Ops |-> IF r.ops[o] # None THEN r.ops[o] ELSE Unregistered.ops[o]]
    BY <1>0, <2>2, RegisterTyped DEF Register
  <2> HIDE DEF reg
  <2>4. ASSUME Behind(r, db.conn, ops, cache[Api].reg, held, tools)
        PROVE  Current(db.conn, ops, reg.reg, reg.ops, tools)
    <3>1. /\ Current(db.conn, ops, cache[Api].reg, held, tools) /\ db.conn
          /\ \A o \in Ops : r.ops[o] # None => r.ops[o] = ops[o]
      BY <2>1, <2>4 DEF Behind
    <3> QED BY <2>2, <2>3, <3>1 DEF Current
  <2> QED BY <1>0, <1>2, <2>1, <2>3, <2>4
<1> QED BY <1>3, <1>4, <1>5, <1>6, <1>7, <1>8 DEF Hooks

LEMMA HooksStep == TypeOK /\ HooksInv /\ [Next]_vars => HooksInv'
<1> SUFFICES ASSUME TypeOK, HooksInv, Next PROVE HooksInv'
  <2>1. CASE UNCHANGED vars
    BY <2>1, HooksFrame DEF vars
  <2> QED BY <2>1
<1>1. ASSUME UNCHANGED <<db, cache, tools, adm>>, hist'.overlap = hist.overlap PROVE HooksInv'
  BY <1>1, HooksFrame
<1>2. ASSUME NEW t \in 1..MaxLapsed, Lapse(t) PROVE HooksInv'
  BY <1>1, <1>2 DEF Lapse, rows
<1>3. ASSUME NEW c \in Calls, Begins(c) PROVE HooksInv'
  BY <1>1, <1>3, BeginsTyped
<1>4. ASSUME NEW c \in Calls, Prepare(c) PROVE HooksInv'
  BY <1>1, <1>4, PrepareTyped
<1>5. ASSUME NEW c \in Calls, Acquire(c) PROVE HooksInv'
  BY <1>1, <1>5, AcquireTyped
<1>6. ASSUME NEW c \in Calls, RefreshGranted(c) PROVE HooksInv'
  <2>1. /\ UNCHANGED <<db, tools, adm>> /\ hist' = [hist EXCEPT !.dropped = @ \/ ~sessions]
        /\ cache' = cache \/ cache' = [cache EXCEPT ![call[c].proc].creds = Patched(call[c].creds)]
    BY <1>6, RefreshGrantedTyped
  <2>2. hist'.overlap = hist.overlap
    BY <2>1 DEF TypeOK
  <2>3. cache'[Api].reg = cache[Api].reg /\ cache'[Api].ops = cache[Api].ops
    <3> DEFINE new == Patched(call[c].creds)
    <3>1. cache' = cache \/ cache' = [cache EXCEPT ![call[c].proc].creds = new]
      BY <2>1
    <3> HIDE DEF new
    <3> QED BY <3>1, ConnectorsAssumption DEF TypeOK
  <2> QED BY <2>1, <2>2, <2>3, HooksFrame
<1>7. ASSUME NEW c \in Calls, RefreshFails(c) PROVE HooksInv'
  <2>1. /\ UNCHANGED <<db, cache, tools, adm>>
        /\ hist' = hist \/ hist' = [hist EXCEPT !.dropped = TRUE]
    BY <1>7, RefreshFailsTyped
  <2>2. hist'.overlap = hist.overlap
    BY <2>1 DEF TypeOK
  <2> QED BY <1>1, <2>1, <2>2
<1>8. ASSUME NEW c \in Calls, Persist(c) PROVE HooksInv'
  <2>1. /\ db' \in {db, [db EXCEPT !.creds = call[c].got]}
        /\ hist' \in {[hist EXCEPT !.dropped = TRUE],
                      [hist EXCEPT !.stale = @ \/ db.creds.refresh # call[c].creds.refresh]}
        /\ cache' = cache /\ tools' = tools /\ adm' = adm
    BY <1>8, PersistTyped
  <2>2. db'.conn = db.conn /\ db'.ops = db.ops
    BY <2>1 DEF TypeOK
  <2>4. hist'.overlap = hist.overlap
    BY <2>1 DEF TypeOK
  <2> QED BY <2>1, <2>2, <2>4, HooksFrame
<1>9. ASSUME NEW c \in Calls, NEW st, Attempt(c, st) PROVE HooksInv'
  BY <1>1, <1>9, AttemptTyped
<1>10. ASSUME NEW a \in Admins, Arrives(a) PROVE HooksInv'
  BY <1>10, HooksArrives
<1>11. ASSUME NEW a \in Admins, OAuth2Callback(a) PROVE HooksInv'
  <2>1. adm[a].kind = "popup" /\ UNCHANGED <<db, cache, tools, hist>>
    BY <1>11, CallbackTyped DEF rows
  <2>2. PICK rec : adm' = [adm EXCEPT ![a] = rec] /\ rec.kind \in {"exchange", "idle"}
    BY <1>11, CallbackTyped
  <2>3. RowsInv'
    BY <2>1 DEF HooksInv, RowsInv
  <2>4. Behind(adm[a], db.conn, db.ops, cache[Api].reg, cache[Api].ops, tools) =>
          Behind(rec, db'.conn, db'.ops, cache'[Api].reg, cache'[Api].ops, tools')
    BY <2>1, <2>2 DEF Behind
  <2> QED BY <2>1, <2>2, <2>3, <2>4, HooksGo
<1>12. ASSUME NEW a \in Admins, Exchange(a) PROVE HooksInv'
  <2>1. adm[a].kind = "exchange" /\ UNCHANGED <<cache, tools>>
    BY <1>12, ExchangeTyped
  <2>2. \/ adm' = [adm EXCEPT ![a] = NoAdmin] /\ db' = db
        \/ /\ db.conn /\ \E new : db' = [db EXCEPT !.creds = new]
           /\ \E rec : adm' = [adm EXCEPT ![a] = rec] /\ rec.kind = "register" /\ rec.ops = db.ops
    BY <1>12, ExchangeTyped
  <2>4. hist' = hist
    BY <1>12, ExchangeTyped
  <2>5. db'.conn = db.conn /\ db'.ops = db.ops
    BY <2>2 DEF TypeOK
  <2>6. RowsInv'
    BY <2>5 DEF HooksInv, RowsInv
  <2>7. PICK rec : /\ adm' = [adm EXCEPT ![a] = rec]
                   /\ rec.kind = "idle" \/ (rec.kind = "register" /\ rec.ops = db.ops /\ db.conn)
    <3>1. NoAdmin.kind = "idle"
      BY DEF NoAdmin
    <3>2. CASE adm' = [adm EXCEPT ![a] = NoAdmin]
      BY <3>1, <3>2
    <3> QED BY <2>2, <3>2
  <2>8. Behind(adm[a], db.conn, db.ops, cache[Api].reg, cache[Api].ops, tools) =>
          Behind(rec, db'.conn, db'.ops, cache'[Api].reg, cache'[Api].ops, tools')
    BY <2>1, <2>5, <2>7 DEF Behind
  <2> QED BY <2>1, <2>4, <2>6, <2>7, <2>8, HooksGo
<1>13. ASSUME NEW a \in Admins, Hooks(a) PROVE HooksInv'
  BY <1>13, HooksHooks
<1>14. ASSUME NEW p \in Procs, Restart(p) PROVE HooksInv'
  <2>1. /\ cache' = [cache EXCEPT ![p] = Loaded] /\ db' = db
        /\ tools' = (IF p = Api THEN BuiltTools ELSE tools)
        /\ adm' = (IF p = Api THEN [a \in Admins |-> NoAdmin] ELSE adm)
        /\ hist'.overlap = hist.overlap
    BY <1>14, RestartTyped
  <2>2. CASE p # Api
    BY <2>1, <2>2, HooksFrame, ConnectorsAssumption DEF TypeOK
  <2>3. CASE p = Api
    <3>1. cache'[Api] = Loaded /\ tools' = BuiltTools
      BY <2>1, <2>3 DEF TypeOK
    <3>2. \A a \in Admins : adm'[a].kind = "idle"
      BY <2>1, <2>3 DEF NoAdmin
    <3>3. RowsInv'
      BY <2>1 DEF HooksInv, RowsInv
    <3>4. Current(db.conn, db.ops, Loaded.reg, Loaded.ops, BuiltTools)
      BY BuiltCurrent DEF TypeOK
    <3> QED BY <2>1, <3>1, <3>2, <3>3, <3>4 DEF HooksInv, OneAtATime
  <2> QED BY <2>2, <2>3
<1> QED BY <1>2, <1>3, <1>4, <1>5, <1>6, <1>7, <1>8, <1>9, <1>10, <1>11, <1>12, <1>13, <1>14,
          StepGroups

LEMMA HooksInit == Init => HooksInv
<1> SUFFICES ASSUME Init PROVE HooksInv
  OBVIOUS
<1>1. TypeOK
  BY TypeInit
<1>2. \A a \in Admins : adm[a].kind = "idle"
  BY DEF Init, NoAdmin
<1>3. cache[Api] = Loaded /\ tools = BuiltTools
  BY ConnectorsAssumption DEF Init
<1>4. Current(db.conn, db.ops, Loaded.reg, Loaded.ops, BuiltTools)
  BY <1>1, BuiltCurrent DEF TypeOK
<1>5. RowsInv
  BY DEF Init, RowsInv
<1> QED BY <1>2, <1>3, <1>4, <1>5 DEF HooksInv, OneAtATime

(* After admin requests that did not overlap, the API process's registry and
   MCP server hold no operation the rows no longer have under that name: each
   hook takes back what its own commit left behind, and a callback, a reload
   or a restart leaves nothing behind. *)
THEOREM HooksCatchUp == Spec => []NothingOutlivesItsRow
<1>1. Init => HooksInv
  BY HooksInit
<1>2. TypeOK /\ HooksInv /\ [Next]_vars => HooksInv'
  BY HooksStep
<1>3. HooksInv => NothingOutlivesItsRow
  BY DEF HooksInv, Current, NothingOutlivesItsRow
<1> QED BY <1>1, <1>2, <1>3, TypeCorrect, PTL DEF Spec

-----------------------------------------------------------------------------
(* The grant *)

\* All of them are credentials blobs.
LEMMA CopiesTyped ==
  ASSUME TypeOK
  PROVE  /\ \A x \in Copies : x \in Blobs /\ x.refresh \in Nat
         /\ Shared \subseteq Copies /\ db.creds \in Shared
         /\ \A p \in Procs : cache[p].creds \in Shared
         /\ \A a \in Admins : adm[a].creds \in Shared
         /\ \A c \in Calls : call[c].creds \in Copies /\ call[c].got \in Copies
<1>1. ASSUME NEW x \in Copies PROVE x \in Blobs
  <2>1. db.creds \in Blobs
    BY DEF TypeOK
  <2>2. \A p \in Procs : cache[p].creds \in Blobs
    BY DEF TypeOK
  <2>3. \A c \in Calls : call[c].creds \in Blobs /\ call[c].got \in Blobs
    BY DEF TypeOK, CallRecords
  <2>4. \A a \in Admins : adm[a].creds \in Blobs
    BY DEF TypeOK, AdminRecords
  <2> QED BY <2>1, <2>2, <2>3, <2>4 DEF Copies, Shared
<1>2. \A x \in Copies : x.refresh \in Nat
  BY <1>1 DEF Blobs
<1> QED BY <1>1, <1>2 DEF Copies, Shared

\* Copies move around, calls store or give up, and tokens are issued elsewhere.
LEMMA HeldFrame ==
  ASSUME TypeOK, HeldInv,
         idp'.rotates = idp.rotates, idp'.issued \in Nat, idp.issued \in Nat,
         idp.issued <= idp'.issued,
         ~idp.rotates => idp.usable \subseteq idp'.usable,
         \A x \in Copies' : x \in Copies \/ x.refresh = 0,
         \A c \in Calls : Storing(c)' => Storing(c) /\ call'[c].got = call[c].got,
         db'.creds = db.creds \/ db'.creds.refresh = 0
  PROVE  HeldInv'
<1>1. \A x \in Copies' : x.refresh <= idp'.issued
  BY CopiesTyped DEF HeldInv
<1>2. ~idp'.rotates => \A x \in Copies' : Usable(x)'
  BY DEF HeldInv, Usable
<1>3. ASSUME idp'.rotates, NEW c \in Calls, Storing(c)', call'[c].got.refresh # 0
      PROVE  /\ call'[c].got.refresh # db'.creds.refresh
             /\ \A d \in Calls \ {c} : Storing(d)' => call'[d].got.refresh # call'[c].got.refresh
  BY <1>3 DEF HeldInv
<1> QED BY <1>1, <1>2, <1>3 DEF HeldInv

\* A step that issues nothing and stores nothing.
LEMMA GrantMoved ==
  ASSUME TypeOK, GrantInv,
         idp'.rotates = idp.rotates, idp'.issued = idp.issued, idp'.usable = idp.usable,
         \A x \in Shared' : x \in Copies \/ x.refresh = 0,
         \A c \in Calls :
           /\ call'[c].creds \in Copies \/ call'[c].creds.refresh = 0
           /\ call'[c].got \in Copies \/ call'[c].got.refresh = 0
           /\ call'[c].pc = "persist" =>
                /\ call[c].pc = "persist"
                /\ call'[c].creds = call[c].creds /\ call'[c].got = call[c].got
           /\ call[c].pc = "persist" => call'[c].pc = "persist" \/ hist'.dropped,
         db'.creds = db.creds \/ db'.creds.refresh = 0,
         db'.conn => db.conn, hist.stale => hist'.stale, hist.dropped => hist'.dropped
  PROVE  GrantInv'
<1>1. \A x \in Copies' : x \in Copies \/ x.refresh = 0
  BY DEF Copies
<1>2. HeldInv'
  <2>1. idp.issued \in Nat /\ idp.issued <= idp'.issued
    BY DEF TypeOK
  <2>2. \A c \in Calls : Storing(c)' => Storing(c) /\ call'[c].got = call[c].got
    BY DEF Storing
  <2> QED BY <1>1, <2>1, <2>2, HeldFrame DEF GrantInv
<1>3. ASSUME idp'.rotates, db'.conn, ~hist'.stale, ~hist'.dropped
      PROVE  /\ Linked(db.creds.refresh) /\ Linked(0)'
             /\ \A c \in Calls : Storing(c)' => Linked(call'[c].got.refresh)
             /\ \A x : Linked(x) => Linked(x)'
  <2>1. \A c \in Calls : Storing(c) => Storing(c)' /\ call'[c].creds = call[c].creds
    BY <1>3 DEF Storing
  <2>2. Linked(db.creds.refresh) /\ \A c \in Calls : Storing(c) => Linked(call[c].got.refresh)
    BY <1>3 DEF GrantInv, ChainInv
  <2> QED BY <2>1, <2>2 DEF Linked, Storing
<1>4. ChainInv'
  BY <1>3 DEF ChainInv
<1> QED BY <1>2, <1>4 DEF GrantInv

\* A call that goes on with copies there are, and neither stores nor has to.
LEMMA GrantCall ==
  ASSUME TypeOK, GrantInv, NEW c \in Calls, NEW r \in CallRecords,
         call' = [call EXCEPT ![c] = r], call[c].pc # "persist", r.pc # "persist",
         UNCHANGED <<db, cache, adm, idp, hist>>,
         r.creds \in Copies \/ r.creds.refresh = 0,
         r.got \in Copies \/ r.got.refresh = 0
  PROVE  GrantInv'
<1>1. call'[c] = r /\ \A d \in Calls \ {c} : call'[d] = call[d]
  BY DEF TypeOK
<1>2. \A x \in Shared' : x \in Copies
  BY CopiesTyped DEF Shared
<1>3. ASSUME NEW d \in Calls
      PROVE  /\ call'[d].creds \in Copies \/ call'[d].creds.refresh = 0
             /\ call'[d].got \in Copies \/ call'[d].got.refresh = 0
             /\ call'[d].pc = "persist" =>
                  /\ call[d].pc = "persist"
                  /\ call'[d].creds = call[d].creds /\ call'[d].got = call[d].got
             /\ call[d].pc = "persist" => call'[d].pc = "persist"
  BY <1>1, CopiesTyped
<1> QED BY <1>2, <1>3, GrantMoved

\* What an empty record holds is no token.
LEMMA NoToken ==
  /\ Creds(0, 0, 0, 0).refresh = 0 /\ NoAdmin.creds.refresh = 0
  /\ Unregistered.creds.refresh = 0
BY DEF Creds, NoAdmin, Unregistered

\* A refresh takes the token it presents and links it to the one it gets.
LEMMA GrantRefreshed ==
  ASSUME TypeOK, TypeOK', GrantInv, NEW c \in Calls, RefreshGranted(c)
  PROVE  GrantInv'
<1> DEFINE old == call[c].creds
           new == Patched(old)
           n == idp.issued + 1
<1>1. /\ call[c].pc = "refresh" /\ old.refresh \in {0} \cup idp.usable
      /\ Issue(old.refresh) /\ hist' = [hist EXCEPT !.dropped = @ \/ ~sessions]
      /\ cache' = cache \/ cache' = [cache EXCEPT ![call[c].proc].creds = new]
      /\ UNCHANGED <<db, adm, sessions>>
  BY RefreshGrantedTyped
<1>2. PICK r \in CallRecords :
        /\ call' = [call EXCEPT ![c] = r]
        /\ \/ sessions /\ r.pc = "persist" /\ r.creds = old /\ r.got = new
           \/ /\ ~sessions /\ r.pc \in {"prepare", "send"} /\ r.creds \in {old, new}
              /\ r.got = Creds(0, 0, 0, 0)
  BY RefreshGrantedTyped
<1>3. old \in Blobs /\ old.refresh \in Nat /\ old \in Copies
  BY CopiesTyped
<1>4. /\ idp'.rotates = idp.rotates /\ idp'.issued = n
      /\ idp'.usable = IF idp.rotates /\ old.refresh # 0
                       THEN (idp.usable \ {old.refresh}) \cup {n} ELSE idp.usable
  BY <1>1, <1>3, IssueTyped
<1>5. new.refresh = IF idp.rotates /\ old.refresh # 0 THEN n ELSE old.refresh
  BY <1>3, PatchedTyped
<1>6. /\ call'[c] = r /\ \A d \in Calls \ {c} : call'[d] = call[d]
      /\ hist'.stale = hist.stale /\ hist'.dropped = (hist.dropped \/ ~sessions)
  BY <1>1, <1>2 DEF TypeOK
<1> HIDE DEF new
<1>7. \A x \in Copies' : x \in Copies \/ x = new \/ x.refresh = 0
  <2>1. ASSUME NEW p \in Procs PROVE cache'[p].creds \in Copies \cup {new}
    <3>1. cache[p].creds \in Copies
      BY CopiesTyped
    <3>2. cache'[p].creds \in {cache[p].creds, new}
      BY <1>1 DEF TypeOK
    <3> QED BY <3>1, <3>2
  <2>2. \A d \in Calls : /\ call'[d].creds \in Copies \cup {new}
                         /\ call'[d].got \in Copies \cup {new} \/ call'[d].got.refresh = 0
    BY <1>2, <1>3, <1>6, NoToken, CopiesTyped
  <2>3. db'.creds \in Copies /\ \A a \in Admins : adm'[a].creds \in Copies
    BY <1>1, CopiesTyped
  <2> QED BY <2>1, <2>2, <2>3 DEF Copies, Shared
<1>8. /\ \A x \in Copies : x.refresh \in Nat /\ x.refresh <= idp.issued
      /\ n \in Nat /\ idp.issued \in Nat /\ idp.issued < n
  BY CopiesTyped DEF GrantInv, HeldInv, TypeOK
<1> HIDE DEF n
<1>9. \A x \in Copies' : x.refresh <= idp'.issued
  BY <1>3, <1>4, <1>5, <1>7, <1>8
<1>10. ASSUME ~idp'.rotates PROVE \A x \in Copies' : Usable(x)'
  BY <1>3, <1>4, <1>5, <1>7, <1>10 DEF GrantInv, HeldInv, Usable
<1>11. ASSUME NEW d \in Calls, Storing(d)'
       PROVE  \/ d = c /\ sessions /\ call'[d].got = new /\ call'[d].creds = old
              \/ d # c /\ Storing(d) /\ call'[d] = call[d]
  BY <1>2, <1>6, <1>11 DEF Storing
<1>12. ASSUME idp'.rotates, NEW d \in Calls, Storing(d)', call'[d].got.refresh # 0
       PROVE  /\ call'[d].got.refresh # db'.creds.refresh
              /\ \A e \in Calls \ {d} : Storing(e)' => call'[e].got.refresh # call'[d].got.refresh
  <2>1. \A e \in Calls : call[e].got.refresh # n /\ db.creds.refresh # n
    BY <1>8, CopiesTyped
  <2>2. CASE d = c
    <3>1. call'[d].got.refresh = n
      BY <1>4, <1>5, <1>11, <1>12, <2>2
    <3> QED BY <1>1, <1>11, <2>1, <2>2, <3>1
  <2>3. CASE d # c
    <3>1. Storing(d) /\ call'[d] = call[d]
      BY <1>11, <1>12, <2>3
    <3>2. call[d].got.refresh # new.refresh \/ ~Storing(c)'
      BY <1>4, <1>5, <1>12, <2>1, <3>1
    <3>3. /\ call[d].got.refresh # db.creds.refresh
          /\ \A e \in Calls \ {d} : Storing(e) => call[e].got.refresh # call[d].got.refresh
      BY <1>4, <1>12, <3>1 DEF GrantInv, HeldInv
    <3>4. CASE new.refresh = old.refresh
      <4>1. old.refresh = 0
        BY <1>3, <1>4, <1>5, <1>8, <1>12, <3>4
      <4> QED BY <1>1, <1>11, <1>12, <3>1, <3>3, <3>4, <4>1
    <3>5. CASE new.refresh = n
      BY <1>1, <1>11, <2>1, <3>1, <3>3, <3>5
    <3> QED BY <1>5, <3>4, <3>5
  <2> QED BY <2>2, <2>3
<1>13. HeldInv'
  BY <1>9, <1>10, <1>12 DEF HeldInv
<1>14. ASSUME idp'.rotates, db'.conn, ~hist'.stale, ~hist'.dropped
       PROVE  /\ Linked(db.creds.refresh)'
              /\ \A d \in Calls : Storing(d)' => Linked(call[d].got.refresh)'
  <2>1. sessions /\ Storing(c)' /\ call'[c].creds = old
    BY <1>2, <1>6, <1>14 DEF Storing
  <2>2. /\ Linked(db.creds.refresh)
        /\ \A d \in Calls : Storing(d) => Linked(call[d].got.refresh)
    BY <1>1, <1>4, <1>6, <1>14 DEF GrantInv, ChainInv
  <2>3. ASSUME NEW x, Linked(x) PROVE Linked(x)'
    <3>1. CASE x = old.refresh
      BY <2>1, <3>1 DEF Linked
    <3>2. CASE x # old.refresh /\ x \in {0} \cup idp.usable
      BY <1>4, <3>2 DEF Linked
    <3>3. ASSUME NEW d \in Calls, Storing(d), call[d].creds.refresh = x PROVE Linked(x)'
      <4>1. d # c
        BY <1>1, <3>3 DEF Storing
      <4>2. Storing(d)' /\ call'[d].creds.refresh = x
        BY <1>6, <3>3, <4>1 DEF Storing
      <4> QED BY <4>2 DEF Linked
    <3> QED BY <2>3, <3>1, <3>2, <3>3 DEF Linked
  <2>4. new.refresh \in {0} \cup idp'.usable
    BY <1>4, <1>5, <1>14
  <2>5. ASSUME NEW d \in Calls, Storing(d)' PROVE Linked(call[d].got.refresh)'
    <3>1. CASE call'[d].got = new
      BY <2>4, <3>1 DEF Linked
    <3>2. CASE Storing(d) /\ call'[d] = call[d]
      BY <2>2, <2>3, <3>2
    <3> QED BY <1>11, <2>5, <3>1, <3>2
  <2>6. Linked(db.creds.refresh)'
    BY <1>1, <2>2, <2>3
  <2> QED BY <2>5, <2>6
<1>15. ChainInv'
  BY <1>14 DEF ChainInv
<1> QED BY <1>13, <1>15 DEF GrantInv

\* A refresh that fails has issued nothing, or its answer is dropped.
LEMMA GrantFailed ==
  ASSUME TypeOK, TypeOK', GrantInv, NEW c \in Calls, RefreshFails(c)
  PROVE  GrantInv'
<1>1. call[c].pc = "refresh" /\ UNCHANGED <<db, cache, adm>>
  BY RefreshFailsTyped
<1>2. PICK res \in {"error", "raised"} : call' = [call EXCEPT ![c] = Done(call[c], res)]
  BY RefreshFailsTyped
<1> DEFINE r == Done(call[c], res)
<1>3. /\ r \in CallRecords /\ r.pc = "done" /\ r.creds.refresh = 0 /\ r.got.refresh = 0
  <2>1. call[c] \in CallRecords
    BY DEF TypeOK
  <2> QED BY <2>1, DoneTyped, NoToken
<1>4. call' = [call EXCEPT ![c] = r]
  BY <1>2
<1> HIDE DEF r
<1>5. CASE UNCHANGED <<idp, hist>>
  BY <1>1, <1>3, <1>4, <1>5, GrantCall
<1>6. CASE Issue(call[c].creds.refresh) /\ hist' = [hist EXCEPT !.dropped = TRUE]
  <2>1. call[c].creds.refresh \in Nat
    BY CopiesTyped
  <2>2. /\ idp'.rotates = idp.rotates /\ idp'.issued = idp.issued + 1
        /\ ~idp.rotates => idp'.usable = idp.usable
    BY <1>6, <2>1, IssueTyped
  <2>3. idp.issued \in Nat /\ idp'.issued \in Nat /\ idp.issued <= idp'.issued
    BY <2>2 DEF TypeOK
  <2>4. call'[c] = r /\ \A d \in Calls \ {c} : call'[d] = call[d]
    BY <1>4 DEF TypeOK
  <2>5. \A x \in Copies' : x \in Copies \/ x.refresh = 0
    <3>1. \A x \in Shared' : x \in Copies
      BY <1>1, CopiesTyped DEF Shared
    <3>2. \A d \in Calls : /\ call'[d].creds \in Copies \/ call'[d].creds.refresh = 0
                           /\ call'[d].got \in Copies \/ call'[d].got.refresh = 0
      BY <1>3, <2>4, CopiesTyped
    <3> QED BY <3>1, <3>2 DEF Copies
  <2>6. \A d \in Calls : Storing(d)' => Storing(d) /\ call'[d].got = call[d].got
    BY <1>3, <2>4 DEF Storing
  <2>7. HeldInv'
    BY <1>1, <2>2, <2>3, <2>5, <2>6, HeldFrame DEF GrantInv
  <2>8. hist'.dropped
    BY <1>6 DEF TypeOK
  <2> QED BY <2>7, <2>8 DEF GrantInv, ChainInv
<1> QED BY <1>5, <1>6, RefreshFailsTyped

\* A commit that is not stale puts the next link of the chain into the row.
LEMMA GrantPersisted ==
  ASSUME TypeOK, TypeOK', GrantInv, NEW c \in Calls, Persist(c)
  PROVE  GrantInv'
<1>1. call[c].pc = "persist" /\ UNCHANGED <<adm, cache, idp>>
  BY PersistTyped
<1>2. PICK r \in CallRecords :
        /\ call' = [call EXCEPT ![c] = r]
        /\ \/ /\ r = Done(call[c], "raised")
              /\ db' = db /\ hist' = [hist EXCEPT !.dropped = TRUE]
           \/ /\ r.creds \in {call[c].creds, call[c].got} /\ r.got = Creds(0, 0, 0, 0)
              /\ r.pc \in {"prepare", "send"}
              /\ db' = (IF db.conn THEN [db EXCEPT !.creds = call[c].got] ELSE db)
              /\ hist' = [hist EXCEPT !.stale = @ \/ db.creds.refresh # call[c].creds.refresh]
  BY PersistTyped
<1>3. call'[c] = r /\ \A d \in Calls \ {c} : call'[d] = call[d]
  BY <1>2 DEF TypeOK
<1>4. CASE /\ r = Done(call[c], "raised")
           /\ db' = db /\ hist' = [hist EXCEPT !.dropped = TRUE]
  <2>1. r.pc = "done" /\ r.creds.refresh = 0 /\ r.got.refresh = 0
    <3>1. call[c] \in CallRecords
      BY DEF TypeOK
    <3> QED BY <1>4, <3>1, DoneTyped, NoToken
  <2>2. hist'.dropped
    BY <1>4 DEF TypeOK
  <2>3. \A x \in Shared' : x \in Copies
    BY <1>1, <1>4, CopiesTyped DEF Shared
  <2>4. \A d \in Calls :
           /\ call'[d].creds \in Copies \/ call'[d].creds.refresh = 0
           /\ call'[d].got \in Copies \/ call'[d].got.refresh = 0
           /\ call'[d].pc = "persist" =>
                /\ call[d].pc = "persist"
                /\ call'[d].creds = call[d].creds /\ call'[d].got = call[d].got
    BY <1>3, <2>1, CopiesTyped
  <2>5. hist.stale => hist'.stale
    BY <1>4 DEF TypeOK
  <2> QED BY <1>1, <1>4, <2>2, <2>3, <2>4, <2>5, GrantMoved
<1>5. ASSUME r.creds \in {call[c].creds, call[c].got}, r.got = Creds(0, 0, 0, 0),
             r.pc \in {"prepare", "send"},
             db' = (IF db.conn THEN [db EXCEPT !.creds = call[c].got] ELSE db),
             hist' = [hist EXCEPT !.stale = @ \/ db.creds.refresh # call[c].creds.refresh]
      PROVE  GrantInv'
  <2> DEFINE g == call[c].got
  <2>1. /\ db'.creds = IF db.conn THEN g ELSE db.creds
        /\ db'.conn = db.conn
        /\ hist'.stale = (hist.stale \/ db.creds.refresh # call[c].creds.refresh)
        /\ hist'.dropped = hist.dropped
    BY <1>5 DEF TypeOK
  <2>2. \A x \in Copies' : x \in Copies \/ x.refresh = 0
    <3>1. db'.creds \in Copies
      BY <2>1, CopiesTyped
    <3>2. \A x \in Shared' : x \in Copies
      BY <1>1, <3>1, CopiesTyped DEF Shared
    <3>3. \A d \in Calls : /\ call'[d].creds \in Copies
                           /\ call'[d].got \in Copies \/ call'[d].got.refresh = 0
      BY <1>3, <1>5, NoToken, CopiesTyped
    <3> QED BY <3>2, <3>3 DEF Copies
  <2>3. \A d \in Calls : Storing(d)' <=> d # c /\ Storing(d)
    BY <1>3, <1>5 DEF Storing
  <2>4. \A d \in Calls : Storing(d)' => call'[d] = call[d]
    BY <1>3, <2>3
  <2>5. Storing(c)
    BY <1>1 DEF Storing
  <2>6. \A x \in Copies' : x.refresh <= idp'.issued
    BY <1>1, <2>2, CopiesTyped DEF GrantInv, HeldInv, TypeOK
  <2>7. ~idp'.rotates => \A x \in Copies' : Usable(x)'
    BY <1>1, <2>2 DEF GrantInv, HeldInv, Usable
  <2>8. ASSUME idp'.rotates, NEW d \in Calls, Storing(d)', call'[d].got.refresh # 0
        PROVE  /\ call'[d].got.refresh # db'.creds.refresh
               /\ \A e \in Calls \ {d} :
                    Storing(e)' => call'[e].got.refresh # call'[d].got.refresh
    <3>1. d # c /\ Storing(d) /\ call'[d] = call[d] /\ idp.rotates
      BY <1>1, <2>3, <2>4, <2>8
    <3>2. /\ call[d].got.refresh # db.creds.refresh
          /\ \A e \in Calls \ {d} : Storing(e) => call[e].got.refresh # call[d].got.refresh
      BY <2>8, <3>1 DEF GrantInv, HeldInv
    <3>3. call[d].got.refresh # g.refresh
      BY <2>5, <3>1, <3>2
    <3> QED BY <2>1, <2>3, <2>4, <3>1, <3>2, <3>3
  <2>9. HeldInv'
    BY <2>6, <2>7, <2>8 DEF HeldInv
  <2>10. ASSUME idp'.rotates, db'.conn, ~hist'.stale, ~hist'.dropped
         PROVE  /\ Linked(db.creds.refresh)'
                /\ \A d \in Calls : Storing(d)' => Linked(call[d].got.refresh)'
    <3>1. /\ db.creds.refresh = call[c].creds.refresh /\ idp.rotates
          /\ db'.creds = g
          /\ \A d \in Calls : Storing(d) => Linked(call[d].got.refresh)
      BY <1>1, <2>1, <2>10 DEF GrantInv, ChainInv
    <3>2. ASSUME NEW d \in Calls, Storing(d), NEW x, x = call[d].got.refresh
          PROVE  Linked(x)'
      <4>1. CASE x \in {0} \cup idp.usable
        BY <1>1, <4>1 DEF Linked
      <4>2. ASSUME x # 0, NEW e \in Calls, Storing(e), call[e].creds.refresh = x
            PROVE  Linked(x)'
        <5>1. call[d].got.refresh # db.creds.refresh
          BY <3>1, <3>2, <4>2 DEF GrantInv, HeldInv
        <5>2. e # c
          BY <3>1, <3>2, <4>2, <5>1
        <5>3. Storing(e)' /\ call'[e].creds.refresh = x
          BY <2>3, <2>4, <4>2, <5>2
        <5> QED BY <5>3 DEF Linked
      <4>3. Linked(x)
        BY <3>1, <3>2
      <4> QED BY <4>1, <4>2, <4>3 DEF Linked
    <3>3. Linked(db.creds.refresh)'
      <4>1. db'.creds.refresh = call[c].got.refresh
        BY <3>1
      <4> QED BY <2>5, <3>2, <4>1 DEF Linked
    <3>4. ASSUME NEW d \in Calls, Storing(d)' PROVE Linked(call[d].got.refresh)'
      <4>1. Storing(d) /\ call'[d] = call[d]
        BY <2>3, <2>4, <3>4
      <4> QED BY <3>2, <4>1 DEF Linked
    <3> QED BY <3>3, <3>4
  <2>11. ChainInv'
    BY <2>10 DEF ChainInv
  <2> QED BY <2>9, <2>11 DEF GrantInv
<1> QED BY <1>2, <1>4, <1>5

\* The browser's handshake opens a new grant.
LEMMA GrantExchanged ==
  ASSUME TypeOK, TypeOK', GrantInv, NEW a \in Admins, Exchange(a)
  PROVE  GrantInv'
<1>1. UNCHANGED <<cache, call, hist>>
  BY ExchangeTyped
<1>2. CASE adm' = [adm EXCEPT ![a] = NoAdmin] /\ UNCHANGED <<db, idp>>
  <2>1. \A b \in Admins : adm'[b].creds = adm[b].creds \/ adm'[b].creds.refresh = 0
    BY <1>2, NoToken DEF TypeOK
  <2>2. \A x \in Shared' : x \in Copies \/ x.refresh = 0
    BY <1>1, <1>2, <2>1, CopiesTyped DEF Shared
  <2> QED BY <1>1, <1>2, <2>2, CopiesTyped, GrantMoved
<1>3. ASSUME NEW new \in Blobs, new.refresh = idp.issued + 1,
             idp' = [idp EXCEPT !.issued = idp.issued + 1, !.usable = @ \cup {idp.issued + 1}],
             db'.conn = db.conn, db'.creds = db.creds \/ db'.creds = new,
             \A b \in Admins : adm'[b].creds \in {adm[b].creds, new} \/ adm'[b].creds.refresh = 0
      PROVE  GrantInv'
  <2> DEFINE n == idp.issued + 1
  <2>1. /\ idp'.rotates = idp.rotates /\ idp'.issued = n /\ idp'.usable = idp.usable \cup {n}
    BY <1>3 DEF TypeOK
  <2>2. \A x \in Copies' : x \in Copies \/ x.refresh = 0 \/ x = new
    <3>1. \A x \in Shared' : x \in Copies \/ x.refresh = 0 \/ x = new
      BY <1>1, <1>3, CopiesTyped DEF Shared
    <3> QED BY <1>1, <3>1, CopiesTyped DEF Copies
  <2>3. /\ \A x \in Copies : x.refresh \in Nat /\ x.refresh <= idp.issued
        /\ n \in Nat /\ idp.issued \in Nat /\ idp.issued < n /\ new.refresh = n
    BY <1>3, CopiesTyped DEF GrantInv, HeldInv, TypeOK
  <2> HIDE DEF n
  <2>4. \A x \in Copies' : x.refresh <= idp'.issued
    BY <2>1, <2>2, <2>3
  <2>5. ~idp'.rotates => \A x \in Copies' : Usable(x)'
    BY <2>1, <2>2, <2>3 DEF GrantInv, HeldInv, Usable
  <2>6. \A c \in Calls : Storing(c)' <=> Storing(c)
    BY <1>1 DEF Storing
  <2>7. ASSUME idp'.rotates, NEW c \in Calls, Storing(c)', call'[c].got.refresh # 0
        PROVE  /\ call'[c].got.refresh # db'.creds.refresh
               /\ \A d \in Calls \ {c} :
                    Storing(d)' => call'[d].got.refresh # call'[c].got.refresh
    <3>1. /\ call[c].got.refresh # db.creds.refresh
          /\ \A d \in Calls \ {c} : Storing(d) => call[d].got.refresh # call[c].got.refresh
      BY <1>1, <2>1, <2>6, <2>7 DEF GrantInv, HeldInv
    <3>2. call[c].got.refresh # n
      BY <2>3, CopiesTyped
    <3> QED BY <1>1, <1>3, <2>3, <2>6, <3>1, <3>2
  <2>8. HeldInv'
    BY <2>4, <2>5, <2>7 DEF HeldInv
  <2>9. \A x : Linked(x) => Linked(x)'
    BY <1>1, <2>1 DEF Linked, Storing
  <2>10. ASSUME NEW m, m = n PROVE Linked(m)'
    BY <2>1, <2>10 DEF Linked
  <2>11. ASSUME idp'.rotates, db'.conn, ~hist'.stale, ~hist'.dropped
         PROVE  /\ Linked(db.creds.refresh)'
                /\ \A c \in Calls : Storing(c)' => Linked(call[c].got.refresh)'
    <3>1. /\ Linked(db.creds.refresh)
          /\ \A c \in Calls : Storing(c) => Linked(call[c].got.refresh)
      BY <1>1, <1>3, <2>1, <2>11 DEF GrantInv, ChainInv
    <3>2. Linked(db.creds.refresh)'
      <4>1. CASE db'.creds = db.creds
        BY <2>9, <3>1, <4>1 DEF Linked
      <4>2. CASE db'.creds = new
        <5>1. db'.creds.refresh = n
          BY <2>3, <4>2
        <5> QED BY <2>10, <5>1 DEF Linked
      <4> QED BY <1>3, <4>1, <4>2
    <3>3. \A c \in Calls : Storing(c)' => Linked(call[c].got.refresh)'
      BY <1>1, <2>6, <2>9, <3>1
    <3> QED BY <3>2, <3>3
  <2>12. ChainInv'
    BY <2>11 DEF ChainInv
  <2> QED BY <2>8, <2>12 DEF GrantInv
<1>4. ASSUME NEW new \in Blobs, new.refresh = idp.issued + 1,
             idp' = [idp EXCEPT !.issued = idp.issued + 1, !.usable = @ \cup {idp.issued + 1}],
             \/ ~db.conn /\ db' = db /\ adm' = [adm EXCEPT ![a] = NoAdmin]
             \/ /\ db.conn /\ db' = [db EXCEPT !.creds = new]
                /\ \E rec \in AdminRecords :
                     /\ adm' = [adm EXCEPT ![a] = rec] /\ rec.kind = "register"
                     /\ rec.creds = new /\ rec.ops = db.ops
      PROVE  GrantInv'
  <2>1. CASE db' = db /\ adm' = [adm EXCEPT ![a] = NoAdmin]
    <3>1. \A b \in Admins : adm'[b].creds = adm[b].creds \/ adm'[b].creds.refresh = 0
      BY <2>1, NoToken DEF TypeOK
    <3> QED BY <1>3, <1>4, <2>1, <3>1
  <2>2. ASSUME db' = [db EXCEPT !.creds = new],
               NEW rec \in AdminRecords, adm' = [adm EXCEPT ![a] = rec], rec.creds = new
        PROVE  GrantInv'
    <3>1. \A b \in Admins : adm'[b].creds \in {adm[b].creds, new}
      BY <2>2 DEF TypeOK
    <3>2. db'.creds = new /\ db'.conn = db.conn
      BY <2>2 DEF TypeOK
    <3> QED BY <1>3, <1>4, <3>1, <3>2
  <2> QED BY <1>4, <2>1, <2>2
<1> QED BY <1>2, <1>4, ExchangeTyped

LEMMA GrantStep == TypeOK /\ TypeOK' /\ GrantInv /\ [Next]_vars => GrantInv'
<1> SUFFICES ASSUME TypeOK, TypeOK', GrantInv, [Next]_vars PROVE GrantInv'
  OBVIOUS
<1>0. ASSUME UNCHANGED vars PROVE GrantInv'
  <2>1. Shared' = Shared
    BY <1>0 DEF Shared, vars
  <2> QED BY <1>0, <2>1, CopiesTyped, GrantMoved DEF vars
<1>1. ASSUME NEW t \in 1..MaxLapsed, Lapse(t) PROVE GrantInv'
  <2>1. idp' = [idp EXCEPT !.lapsed = @ \cup {t}] /\ UNCHANGED <<db, cache, adm, call, hist>>
    BY <1>1 DEF Lapse, rows
  <2>2. idp'.rotates = idp.rotates /\ idp'.issued = idp.issued /\ idp'.usable = idp.usable
    BY <2>1 DEF TypeOK
  <2>3. Shared' = Shared
    BY <2>1 DEF Shared
  <2> QED BY <2>1, <2>2, <2>3, CopiesTyped, GrantMoved
<1>2. ASSUME NEW cl \in CallRecords, NEW res \in {"error", "raised"}
      PROVE  LET r == Done(cl, res)
             IN /\ r \in CallRecords /\ r.pc # "persist" /\ r.creds.refresh = 0 /\ r.got.refresh = 0
  BY DoneTyped, NoToken
<1>3. ASSUME NEW c \in Calls, Begins(c) PROVE GrantInv'
  <2>1. call[c].pc = "idle" /\ UNCHANGED <<db, cache, adm, idp, hist>>
    BY <1>3, BeginsTyped
  <2>2. PICK r \in CallRecords :
          /\ call' = [call EXCEPT ![c] = r]
          /\ \/ r = Done(NoCall, "raised")
             \/ /\ r.creds \in {db.creds} \cup {cache[p].creds : p \in Procs}
                /\ r.pc = "prepare" /\ r.got = Creds(0, 0, 0, 0)
    BY <1>3, BeginsTyped
  <2>3. CASE r = Done(NoCall, "raised")
    BY <1>2, <2>1, <2>2, <2>3, EmptyTyped, GrantCall
  <2>4. CASE /\ r.creds \in {db.creds} \cup {cache[p].creds : p \in Procs}
             /\ r.pc = "prepare" /\ r.got = Creds(0, 0, 0, 0)
    <3>1. r.creds \in Shared
      BY <2>4 DEF Shared
    <3>2. r.creds \in Copies
      BY <3>1, CopiesTyped
    <3> QED BY <2>1, <2>2, <2>4, <3>2, NoToken, GrantCall
  <2> QED BY <2>2, <2>3, <2>4
<1>4. ASSUME NEW c \in Calls, Prepare(c) PROVE GrantInv'
  <2>1. call[c].pc = "prepare" /\ UNCHANGED <<db, cache, adm, idp, hist>>
    BY <1>4, PrepareTyped
  <2>2. PICK r \in CallRecords :
          /\ call' = [call EXCEPT ![c] = r]
          /\ \/ r = Done(call[c], "error")
             \/ r.pc \in {"send", "wait"} /\ Keeps(r, call[c])
    BY <1>4, PrepareTyped
  <2>3. CASE r = Done(call[c], "error")
    <3>1. call[c] \in CallRecords
      BY DEF TypeOK
    <3> QED BY <1>2, <2>1, <2>2, <2>3, <3>1, GrantCall
  <2>4. CASE r.pc \in {"send", "wait"} /\ Keeps(r, call[c])
    BY <2>1, <2>2, <2>4, CopiesTyped, GrantCall DEF Keeps
  <2> QED BY <2>2, <2>3, <2>4
<1>5. ASSUME NEW c \in Calls, Acquire(c) PROVE GrantInv'
  <2>1. call[c].pc = "wait" /\ UNCHANGED <<db, cache, adm, idp, hist>>
    BY <1>5, AcquireTyped
  <2>2. PICK r \in CallRecords :
          /\ call' = [call EXCEPT ![c] = r] /\ r.pc \in {"refresh", "send"} /\ Keeps(r, call[c])
    BY <1>5, AcquireTyped
  <2> QED BY <2>1, <2>2, CopiesTyped, GrantCall DEF Keeps
<1>6. ASSUME NEW c \in Calls, NEW st, Attempt(c, st) PROVE GrantInv'
  <2>1. call[c].pc = "send" /\ UNCHANGED <<db, cache, adm, idp, hist>>
    BY <1>6, AttemptTyped
  <2>2. PICK r \in CallRecords :
          /\ call' = [call EXCEPT ![c] = r] /\ r.pc \in {"done", "wait", "prepare"}
          /\ r.creds \in {call[c].creds, Creds(0, 0, 0, 0)}
          /\ r.got \in {call[c].got, Creds(0, 0, 0, 0)}
    BY <1>6, AttemptTyped
  <2> QED BY <2>1, <2>2, NoToken, CopiesTyped, GrantCall
<1>7. ASSUME NEW a \in Admins, Arrives(a) PROVE GrantInv'
  <2>1. PICK rec : Leaves(a, rec)
    BY <1>7, ArrivesTyped
  <2>2. /\ adm' = [adm EXCEPT ![a] = rec] /\ call' = call
        /\ hist'.stale = hist.stale /\ hist'.dropped = hist.dropped
    BY <2>1, ArriveTyped DEF Leaves
  <2>3. /\ rec.creds \in {Creds(0, 0, 0, 0), db'.creds} /\ idp' = idp
        /\ db'.creds = db.creds \/ db'.creds.refresh = 0
        /\ db'.conn => db.conn
    BY <2>1 DEF Leaves
  <2>4. \A p \in Procs : cache'[p].creds = cache[p].creds \/ cache'[p].creds.refresh = 0
    BY <1>7, ArrivesTyped, NoToken DEF TypeOK
  <2>5. \A b \in Admins : adm'[b].creds \in {adm[b].creds, db.creds} \/ adm'[b].creds.refresh = 0
    BY <2>2, <2>3, NoToken DEF TypeOK
  <2>6. \A x \in Shared' : x \in Copies \/ x.refresh = 0
    BY <2>3, <2>4, <2>5, CopiesTyped DEF Shared
  <2> QED BY <2>2, <2>3, <2>6, CopiesTyped, GrantMoved
<1>8. ASSUME NEW a \in Admins, OAuth2Callback(a) PROVE GrantInv'
  <2>1. UNCHANGED <<db, cache, call, idp, hist>>
    BY <1>8, CallbackTyped DEF rows
  <2>2. PICK rec : adm' = [adm EXCEPT ![a] = rec] /\ rec.creds \in {Creds(0, 0, 0, 0), db.creds}
    BY <1>8, CallbackTyped
  <2>3. \A b \in Admins : adm'[b].creds \in {adm[b].creds, db.creds} \/ adm'[b].creds.refresh = 0
    BY <2>2, NoToken DEF TypeOK
  <2>4. \A x \in Shared' : x \in Copies \/ x.refresh = 0
    BY <2>1, <2>3, CopiesTyped DEF Shared
  <2> QED BY <2>1, <2>4, CopiesTyped, GrantMoved
<1>9. ASSUME NEW a \in Admins, Hooks(a) PROVE GrantInv'
  <2>1. PICK reg \in [reg : BOOLEAN, creds : Blobs, ops : Listings],
             tls \in [Names -> Ops \cup {None}] :
          /\ reg.creds \in {cache[Api].creds, adm[a].creds, Creds(0, 0, 0, 0)}
          /\ \E k : Hooked(a, k, reg, tls)
    BY <1>9, HooksTyped
  <2>2. /\ adm' = [adm EXCEPT ![a] = NoAdmin] /\ cache' = [cache EXCEPT ![Api] = reg]
        /\ \A c \in Calls : call'[c].pc = call[c].pc /\ Keeps(call'[c], call[c])
        /\ UNCHANGED <<db, idp, hist>>
    BY <2>1, HookedTyped
  <2>3. \A b \in Admins : adm'[b].creds = adm[b].creds \/ adm'[b].creds.refresh = 0
    BY <2>2, NoToken DEF TypeOK
  <2>4. \A p \in Procs : \/ cache'[p].creds \in {cache[p].creds, adm[a].creds}
                         \/ cache'[p].creds.refresh = 0
    BY <2>1, <2>2, NoToken DEF TypeOK
  <2>5. \A x \in Shared' : x \in Copies \/ x.refresh = 0
    BY <2>2, <2>3, <2>4, CopiesTyped DEF Shared
  <2> QED BY <2>2, <2>5, CopiesTyped, GrantMoved DEF Keeps
<1>10. ASSUME NEW p \in Procs, Restart(p) PROVE GrantInv'
  <2>1. /\ cache' = [cache EXCEPT ![p] = Loaded] /\ UNCHANGED <<db, idp>>
        /\ adm' = (IF p = Api THEN [a \in Admins |-> NoAdmin] ELSE adm)
        /\ \A c \in Calls : call'[c] = call[c] \/ call'[c] = Done(call[c], "lost")
        /\ \A c \in Calls : call[c].pc = "persist" => call'[c] = call[c] \/ hist'.dropped
        /\ hist'.stale = hist.stale
        /\ hist.dropped => hist'.dropped
    BY <1>10, RestartTyped
  <2>2. \A q \in Procs : cache'[q].creds \in {cache[q].creds, db.creds} \/ cache'[q].creds.refresh = 0
    <3>1. Loaded.creds = db.creds \/ Loaded.creds.refresh = 0
      BY NoToken DEF Loaded
    <3> QED BY <2>1, <3>1 DEF TypeOK
  <2>3. \A b \in Admins : adm'[b].creds = adm[b].creds \/ adm'[b].creds.refresh = 0
    BY <2>1, NoToken
  <2>4. \A x \in Shared' : x \in Copies \/ x.refresh = 0
    BY <2>1, <2>2, <2>3, CopiesTyped DEF Shared
  <2>5. ASSUME NEW c \in Calls
        PROVE  /\ call'[c].creds = call[c].creds \/ call'[c].creds.refresh = 0
               /\ call'[c].got = call[c].got \/ call'[c].got.refresh = 0
               /\ call'[c].pc = "persist" => call'[c] = call[c]
    <3>1. call[c] \in CallRecords
      BY DEF TypeOK
    <3> QED BY <2>1, <3>1, DoneTyped, NoToken
  <2>6. \A c \in Calls : call[c].pc = "persist" => call'[c].pc = "persist" \/ hist'.dropped
    BY <2>1
  <2> QED BY <2>1, <2>4, <2>5, <2>6, CopiesTyped, GrantMoved
<1>11. ASSUME Next PROVE GrantInv'
  BY <1>1, <1>3, <1>4, <1>5, <1>6, <1>7, <1>8, <1>9, <1>10, <1>11, GrantRefreshed, GrantFailed,
     GrantPersisted, GrantExchanged, StepGroups
<1> QED BY <1>0, <1>11

LEMMA GrantInit == Init => GrantInv
<1> SUFFICES ASSUME Init PROVE GrantInv
  OBVIOUS
<1>1. TypeOK
  BY TypeInit
<1>2. /\ idp.issued = 1 /\ idp.usable = {1}
      /\ db.creds = Creds(1, 1, IF idp.dates THEN 1 ELSE 0, 1) /\ db.conn
      /\ cache = [p \in Procs |-> Loaded]
      /\ call = [c \in Calls |-> NoCall] /\ adm = [a \in Admins |-> NoAdmin]
  BY DEF Init
<1>3. db.creds.refresh = 1 /\ Loaded.creds = db.creds
  BY <1>2 DEF Creds, Loaded
<1>4. NoCall.pc = "idle" /\ NoCall.creds.refresh = 0 /\ NoCall.got.refresh = 0
  BY DEF NoCall, Creds
<1>5. \A x \in Copies : x = db.creds \/ x.refresh = 0
  <2>1. \A x \in Shared : x = db.creds \/ x.refresh = 0
    BY <1>2, <1>3, NoToken DEF Shared
  <2> QED BY <1>2, <1>4, <2>1 DEF Copies
<1>6. HeldInv
  BY <1>2, <1>3, <1>4, <1>5 DEF HeldInv, Usable, Storing
<1>7. ChainInv
  BY <1>2, <1>3, <1>4 DEF ChainInv, Linked, Storing
<1> QED BY <1>6, <1>7 DEF GrantInv

(* However many processes and calls refresh one grant, each from its own copy,
   one call several times from the same one, and its siblings from tokens that
   are in the cache and not in the row yet: as long as no answer was dropped
   and none was merged over a copy with another token than the row's, the row
   holds a refresh token the provider accepts once every answer is stored
   (_persist_credentials).  A token that is no longer accepted has a successor
   on its way into the row, whoever presented it. *)
THEOREM RowKeepsTheGrant == Spec => []StoredGrantIsUsable
<1>1. Init => GrantInv
  BY GrantInit
<1>2. TypeOK /\ TypeOK' /\ GrantInv /\ [Next]_vars => GrantInv'
  BY GrantStep
<1>3. GrantInv => StoredGrantIsUsable
  <2>1. CASE ~idp.rotates
    BY <2>1 DEF GrantInv, HeldInv, Copies, Shared, Usable, StoredGrantIsUsable
  <2>2. CASE idp.rotates
    BY <2>2 DEF GrantInv, ChainInv, Linked, Storing, StoredGrantIsUsable
  <2> QED BY <2>1, <2>2
<1> QED BY <1>1, <1>2, <1>3, TypeCorrect, PTL DEF Spec
-----------------------------------------------------------------------------
(* Requests.  The request is a function of the operation, the input and the  *)
(* authenticator, none of which changes.                                     *)

\* The names of a bucket that hold a value of the caller.
FromCaller(f) == {k \in DOMAIN f : f[k] \in {"input", "null", "default"}}

\* Each parameter is in one bucket, and in none if the path consumed it.
LEMMA BucketsDisjoint ==
  ASSUME NEW s \in Shapes, NEW in \in Inputs,
         NEW d \in {"query", "header", "body"}, NEW k \in DOMAIN Bucket(s, in, d)
  PROVE  /\ k \notin s.path
         /\ \A e \in {"query", "header", "body"} : k \in DOMAIN Bucket(s, in, e) => e = d
<1> DEFINE p == Payload(s, in)
<1>1. DOMAIN p = DOMAIN Effective(s, in) \ s.path
  BY DEF Payload, Restrict
<1>2. CASE DOMAIN s.decl = {}
  <2> DEFINE home == IF s.method = "POST" THEN "body" ELSE "query"
  <2>1. \A e \in {"query", "header", "body"} :
          Bucket(s, in, e) = IF e = home THEN p ELSE << >>
    BY <1>2 DEF Bucket
  <2>2. DOMAIN << >> = {}
    OBVIOUS
  <2> HIDE DEF p, home
  <2>3. \A e \in {"query", "header", "body"} : k \in DOMAIN Bucket(s, in, e) => e = home /\ k \in DOMAIN p
    BY <2>1, <2>2
  <2> QED BY <1>1, <2>3
<1>3. CASE DOMAIN s.decl # {}
  <2>1. \A e \in {"query", "header", "body"} :
          DOMAIN Bucket(s, in, e) = {n \in DOMAIN p \cap DOMAIN s.decl : s.decl[n] = e}
    BY <1>3 DEF Bucket, Restrict
  <2> HIDE DEF p
  <2> QED BY <1>1, <2>1
<1> QED BY <1>2, <1>3

\* What each part of the request takes of the caller's values.
LEMMA PartsOfBuckets ==
  ASSUME NEW s \in Shapes, NEW in \in Inputs, NEW where \in {"none", "header", "query"}
  PROVE  LET wire == Build(s, in, where)
         IN /\ FromCaller(wire.path) \subseteq s.path
            /\ FromCaller(wire.headers) \subseteq DOMAIN Bucket(s, in, "header")
            /\ FromCaller(wire.params) \subseteq DOMAIN Bucket(s, in, "query")
            /\ FromCaller(wire.body.root) \subseteq DOMAIN Bucket(s, in, "body")
            /\ FromCaller(wire.body.root) \cap DOMAIN wire.body.template = {}
            /\ where = "header" => wire.headers[AuthKey] = "secret"
<1> DEFINE wire == Build(s, in, where)
           secret == [k \in {AuthKey} |-> "secret"]
           hd == IF where = "header" THEN secret ELSE << >>
           qd == IF where = "query" THEN secret ELSE << >>
<1>1. /\ wire.path = Restrict(Effective(s, in), s.path)
      /\ wire.headers = FinalHeaders(s, in, hd)
      /\ wire.params = FinalParams(s, in, qd)
      /\ wire.body = JsonBody(s, in)
  BY DEF Build
<1>2. DOMAIN secret = {AuthKey} /\ secret[AuthKey] = "secret"
  OBVIOUS
<1>3. DOMAIN << >> = {}
  OBVIOUS
<1> HIDE DEF wire, secret
<1>4. /\ \A k \in DOMAIN hd : hd[k] = "secret"
      /\ \A k \in DOMAIN qd : qd[k] = "secret"
      /\ where = "header" => AuthKey \in DOMAIN hd
  BY <1>2, <1>3
<1> HIDE DEF hd, qd
<1>5. FromCaller(wire.path) \subseteq s.path
  BY <1>1 DEF FromCaller, Restrict
<1>6. /\ FromCaller(wire.headers) \subseteq DOMAIN Bucket(s, in, "header")
      /\ where = "header" => wire.headers[AuthKey] = "secret"
  <2> DEFINE b == Bucket(s, in, "header")
             lit == [k \in s.hdrs |-> "literal"]
  <2>1. wire.headers = Updated(Updated(lit, b), hd)
    BY <1>1 DEF FinalHeaders
  <2>2. \A k \in DOMAIN lit : lit[k] = "literal"
    OBVIOUS
  <2> HIDE DEF b, lit
  <2>3. /\ DOMAIN wire.headers = DOMAIN hd \cup DOMAIN b \cup DOMAIN lit
        /\ \A k \in DOMAIN wire.headers :
             wire.headers[k] = IF k \in DOMAIN hd THEN hd[k]
                               ELSE IF k \in DOMAIN b THEN b[k] ELSE lit[k]
    BY <2>1 DEF Updated
  <2>4. FromCaller(wire.headers) \subseteq DOMAIN b
    BY <1>4, <2>2, <2>3 DEF FromCaller
  <2>5. where = "header" => wire.headers[AuthKey] = "secret"
    BY <1>4, <2>3
  <2> QED BY <2>4, <2>5 DEF b
<1>7. FromCaller(wire.params) \subseteq DOMAIN Bucket(s, in, "query")
  <2> DEFINE q == Bucket(s, in, "query")
             sent == Restrict(q, {k \in DOMAIN q : q[k] # "null"})
  <2>1. wire.params = Updated(qd, sent)
    BY <1>1 DEF FinalParams
  <2>2. DOMAIN sent \subseteq DOMAIN q
    BY DEF Restrict
  <2> HIDE DEF sent, q
  <2>3. /\ DOMAIN wire.params = DOMAIN sent \cup DOMAIN qd
        /\ \A k \in DOMAIN wire.params :
             wire.params[k] = IF k \in DOMAIN sent THEN sent[k] ELSE qd[k]
    BY <2>1 DEF Updated
  <2>4. FromCaller(wire.params) \subseteq DOMAIN q
    BY <1>4, <2>2, <2>3 DEF FromCaller
  <2> QED BY <2>4 DEF q
<1>8. /\ FromCaller(wire.body.root) \subseteq DOMAIN Bucket(s, in, "body")
      /\ FromCaller(wire.body.root) \cap DOMAIN wire.body.template = {}
  <2> DEFINE b == Bucket(s, in, "body")
  <2>1. DOMAIN BodyValues(s, in) = DOMAIN b \ TemplateKeys(s)
    BY DEF BodyValues, Restrict
  <2>2. DOMAIN Interpolated(s, in) = TemplateKeys(s)
    BY DEF Interpolated
  <2>3. /\ wire.body.root \in {<< >>, BodyValues(s, in)}
        /\ wire.body.template \in {<< >>, Interpolated(s, in)}
    BY <1>1 DEF JsonBody
  <2> HIDE DEF b
  <2>4. /\ DOMAIN wire.body.root \subseteq DOMAIN b \ TemplateKeys(s)
        /\ DOMAIN wire.body.template \subseteq TemplateKeys(s)
    BY <1>3, <2>1, <2>2, <2>3
  <2> QED BY <2>4 DEF FromCaller, b
<1> QED BY <1>5, <1>6, <1>7, <1>8 DEF wire

\* A set of which any two elements are one has at most one element.
LEMMA AtMostOne ==
  ASSUME NEW S, \A x, y \in S : x = y
  PROVE  Cardinality(S) \in {0, 1} /\ (S = {} => Cardinality(S) = 0)
<1>1. CASE S = {}
  BY <1>1, FS_EmptySet
<1>2. CASE S # {}
  <2>1. PICK x \in S : TRUE
    BY <1>2
  <2>2. S = {x}
    BY <2>1
  <2>3. Cardinality({x}) = 1
    BY FS_Singleton
  <2> QED BY <1>2, <2>2, <2>3
<1> QED BY <1>1, <1>2

\* Every request of every operation with every input is well placed.
LEMMA WellPlaced ==
  ASSUME NEW s \in Shapes, NEW in \in Inputs, NEW where \in {"none", "header", "query"},
         NEW k \in Key
  PROVE  LET wire == Build(s, in, where)
         IN Cardinality({f \in {"path", "headers", "params"} : k \in FromCaller(wire[f])})
              + (IF k \in FromCaller(wire.body.root) THEN 1 ELSE 0) <= 1
<1> DEFINE wire == Build(s, in, where)
           S == {f \in {"path", "headers", "params"} : k \in FromCaller(wire[f])}
           bucket(d) == DOMAIN Bucket(s, in, d)
<1>1. /\ wire["path"] = wire.path /\ wire["headers"] = wire.headers
      /\ wire["params"] = wire.params
  OBVIOUS
<1>2. /\ "path" \in S => k \in s.path
      /\ "headers" \in S => k \in bucket("header")
      /\ "params" \in S => k \in bucket("query")
      /\ k \in FromCaller(wire.body.root) => k \in bucket("body")
  BY <1>1, PartsOfBuckets
<1>3. \A d, e \in {"query", "header", "body"} :
        k \in bucket(d) => k \notin s.path /\ (k \in bucket(e) => e = d)
  BY BucketsDisjoint
<1>4. \A f \in S : f \in {"path", "headers", "params"}
  OBVIOUS
<1> HIDE DEF wire, S, bucket
<1>5. /\ \A x, y \in S : x = y
      /\ k \in FromCaller(wire.body.root) => S = {}
  BY <1>2, <1>3, <1>4
<1>6. Cardinality(S) \in {0, 1} /\ (S = {} => Cardinality(S) = 0)
  BY <1>5, AtMostOne
<1>7. Cardinality(S) + (IF k \in FromCaller(wire.body.root) THEN 1 ELSE 0) <= 1
  BY <1>5, <1>6
<1> QED BY <1>7 DEF wire, S

\* The operation and the input of the calls are given.
GivenRequest == req \in [shape : Shapes, in : Inputs, where : {"none", "header", "query"}]

\* No step changes the operation or its input.
LEMMA StepKeepsRequest == [Next]_vars => req' = req
<1>1. ASSUME NEW c \in Calls, Begins(c) PROVE req' = req
  BY <1>1 DEF Begins, Execute, TestOperation, TestDraft, Begin, Quiet
<1>2. ASSUME NEW c \in Calls,
             Prepare(c) \/ Acquire(c) \/ RefreshGranted(c) \/ RefreshFails(c) \/ Persist(c)
      PROVE  req' = req
  BY <1>2 DEF Prepare, Acquire, RefreshGranted, RefreshFails, Persist, Quiet
<1>3. ASSUME NEW c \in Calls, NEW st, Attempt(c, st) PROVE req' = req
  BY <1>3 DEF Attempt, Quiet
<1>4. ASSUME NEW a \in Admins, Arrives(a) PROVE req' = req
  BY <1>4 DEF Arrives, CreateOperation, UpdateOperation, DeleteOperation, EnsureRegistered,
              UpdateConnector, DeleteConnector, Reload, OAuth2Start, Arrive
<1>5. ASSUME NEW a \in Admins, OAuth2Callback(a) \/ Exchange(a) PROVE req' = req
  BY <1>5 DEF OAuth2Callback, Exchange, Goes
<1>6. ASSUME NEW a \in Admins, Hooks(a) PROVE req' = req
  BY <1>6 DEF Hooks, OnCreated, OnUpdated, OnDeleted, OnConnectorDeleted, OnRegister, OnLoaded, Goes, Hooked
<1>7. ASSUME NEW p \in Procs, Restart(p) PROVE req' = req
  BY <1>7 DEF Restart
<1>8. ASSUME NEW t \in 1..MaxLapsed, Lapse(t) PROVE req' = req
  BY <1>8 DEF Lapse
<1>9. Next => req' = req
  <2> SUFFICES ASSUME Next PROVE req' = req
    OBVIOUS
  <2> QED BY <1>1, <1>2, <1>3, <1>4, <1>5, <1>6, <1>7, <1>8, StepGroups
<1> QED BY <1>9 DEF vars

\* A value of the caller is sent in one place, and never in place of the
\* authenticator's header, whatever parameters, templates and fixed headers an
\* operation declares and whatever it is called with (_execute_http).
THEOREM ValueSentOnce == Spec => []RequestIsWellPlaced
<1>1. Init => GivenRequest
  BY ConnectorsAssumption DEF Init, GivenRequest
<1>2. GivenRequest /\ [Next]_vars => GivenRequest'
  BY StepKeepsRequest DEF GivenRequest
<1>3. GivenRequest => RequestIsWellPlaced
  <2> SUFFICES ASSUME GivenRequest PROVE RequestIsWellPlaced
    OBVIOUS
  <2> DEFINE wire == Build(req.shape, req.in, req.where)
  <2>1. /\ req.shape \in Shapes /\ req.in \in Inputs
        /\ req.where \in {"none", "header", "query"}
    BY DEF GivenRequest
  <2>2. \A k \in Key :
          Cardinality({f \in {"path", "headers", "params"} : k \in FromCaller(wire[f])})
            + (IF k \in FromCaller(wire.body.root) THEN 1 ELSE 0) <= 1
    BY <2>1, WellPlaced
  <2>3. /\ FromCaller(wire.body.root) \cap DOMAIN wire.body.template = {}
        /\ req.where = "header" => wire.headers[AuthKey] = "secret"
    BY <2>1, PartsOfBuckets
  <2> HIDE DEF wire
  <2> QED BY <2>2, <2>3 DEF RequestIsWellPlaced, FromCaller, wire
<1> QED BY <1>1, <1>2, <1>3, PTL DEF Spec
=============================================================================
