----------------------------- MODULE Accounts -----------------------------
(***************************************************************************)
(* The sessions and the e-mail verification of one user                    *)
(* (src/luna_core/routers/auth.py, services/auth.py,                       *)
(* services/verification.py, core/rate_limit.py).                          *)
(*                                                                         *)
(* A request reads its rows, and writes what it decided from them in a     *)
(* later commit: no row is locked and no write is conditional, so between  *)
(* the two other requests commit.  Tokens and codes are numbered in the    *)
(* order of their creation; 0 is none.                                     *)
(***************************************************************************)
EXTENDS Naturals, FiniteSets, FiniteSetsExt

CONSTANTS
  Requests,       \* request slots of the API process
  MaxToken, MaxCode, MaxRequests,  \* bounds on tokens, codes and requests
  MaxAttempts,    \* settings.email_verification_max_attempts
  LoginLimit,     \* settings.login_rate_limit_attempts
  VerifyLimit, ResendLimit         \* the limits of verify_email and resend

ASSUME BoundsAssumption ==
  /\ MaxToken \in Nat \ {0} /\ MaxCode \in Nat \ {0} /\ MaxRequests \in Nat
  /\ MaxAttempts \in Nat \ {0} /\ LoginLimit \in Nat /\ VerifyLimit \in Nat /\ ResendLimit \in Nat

VARIABLES
  token,    \* per token [st, login, old]: "none", "live" or "revoked"; the login
            \* it descends from; whether expires_at has passed
  code,     \* per code [st, attempts, old]: "none", "live" or "used" (used_at)
  verified, \* user.is_verified
  rate,     \* per limited route [n, ttl]: the Redis counter and whether it expires
  req,      \* per request, what it read and has still to commit
  made,     \* requests made so far
  hist      \* for the properties: [answered] guesses compared per code, [token,
            \* code] a commit on a row that had changed since it was read

vars == <<token, code, verified, rate, req, made, hist>>

Tokens == 1..MaxToken
Codes == 1..MaxCode
Routes == {"login", "verify", "resend"}
Limit(route) == CASE route = "login" -> LoginLimit [] route = "verify" -> VerifyLimit
                  [] OTHER -> ResendLimit

LiveTokens == {t \in Tokens : token[t].st = "live"}
LiveCodes == {c \in Codes : code[c].st = "live"}
NewToken == Cardinality({t \in Tokens : token[t].st # "none"}) + 1
NewCode == Cardinality({c \in Codes : code[c].st # "none"}) + 1
Idle == [pc |-> "idle", id |-> 0, seen |-> {}, attempts |-> 0, right |-> FALSE]

\* register: the user, a session and a code to mail.
Init ==
  /\ token = [t \in Tokens |-> [st |-> IF t = 1 THEN "live" ELSE "none", login |-> t, old |-> FALSE]]
  /\ code = [c \in Codes |-> [st |-> IF c = 1 THEN "live" ELSE "none", attempts |-> 0, old |-> FALSE]]
  /\ verified = FALSE
  /\ rate = [k \in Routes |-> [n |-> 0, ttl |-> FALSE]]
  /\ req = [r \in Requests |-> Idle]
  /\ made = 0
  /\ hist = [answered |-> [c \in Codes |-> 0], token |-> FALSE, code |-> FALSE]

\* A request arrives, and waits for its next answer from the database.
Arrives(r, rec) ==
  /\ req[r].pc = "idle" /\ made < MaxRequests
  /\ made' = made + 1
  /\ req' = [req EXCEPT ![r] = rec]
Ends(r) == req' = [req EXCEPT ![r] = Idle] /\ UNCHANGED made

-----------------------------------------------------------------------------
(* Rate limits: INCR and TTL in one pipeline, then EXPIRE if the key had no *)
(* expiry.  A process that dies before the EXPIRE leaves it to the next     *)
(* request.                                                                 *)

Allowed(route) == rate[route].n < Limit(route)
Counted(route) ==
  \E expires \in {rate[route].ttl, TRUE} :
    rate' = [rate EXCEPT ![route] = [n |-> @.n + 1, ttl |-> expires]]
Cap(route) == rate[route].n <= Limit(route)

\* The window of a key is over.
WindowEnds(route) ==
  /\ rate[route].ttl
  /\ rate' = [rate EXCEPT ![route] = [n |-> 0, ttl |-> FALSE]]
  /\ UNCHANGED <<token, code, verified, req, made, hist>>

\* A token or a code passes its expires_at.
Expire ==
  /\ \/ \E t \in LiveTokens : ~token[t].old /\ token' = [token EXCEPT ![t].old = TRUE] /\ UNCHANGED code
     \/ \E c \in LiveCodes : ~code[c].old /\ code' = [code EXCEPT ![c].old = TRUE] /\ UNCHANGED token
  /\ UNCHANGED <<verified, rate, req, made, hist>>

-----------------------------------------------------------------------------
(* Sessions. *)

\* issue_tokens.
Issue(login) == [token EXCEPT ![NewToken] = [st |-> "live", login |-> login, old |-> FALSE]]

\* login: counted, then the password is checked; over the limit it is a 429.
Login(r, ok) ==
  /\ Counted("login") /\ Cap("login")
  /\ Arrives(r, IF Allowed("login") /\ ok THEN [Idle EXCEPT !.pc = "login"] ELSE Idle)
  /\ UNCHANGED <<token, code, verified, hist>>

\* The right password resets the counter and opens a session.
LoggedIn(r) ==
  /\ req[r].pc = "login" /\ NewToken <= MaxToken
  /\ rate' = [rate EXCEPT !["login"] = [n |-> 0, ttl |-> FALSE]]
  /\ token' = Issue(NewToken)
  /\ Ends(r)
  /\ UNCHANGED <<code, verified, hist>>

\* rotate_refresh_token reads the row it was given: a live one is rotated, a
\* revoked or expired one is a replay, and the user's live tokens are read.
Refresh(r, t) ==
  /\ token[t].st # "none"
  /\ Arrives(r, IF token[t].st = "revoked" \/ token[t].old
                THEN [Idle EXCEPT !.pc = "replay", !.seen = LiveTokens]
                ELSE [Idle EXCEPT !.pc = "rotate", !.id = t])
  /\ UNCHANGED <<token, code, verified, rate, hist>>

\* Seeded fault: the old token is not revoked by its rotation.
RotatedKeeping(t) == Issue(token[t].login)

\* The old token is revoked and its successor issued, in one transaction.
Rotated(t) == [Issue(token[t].login) EXCEPT ![t].st = "revoked"]

Rotate(r) ==
  /\ req[r].pc = "rotate" /\ NewToken <= MaxToken
  /\ token' = Rotated(req[r].id)
  /\ hist' = [hist EXCEPT !.token = @ \/ token[req[r].id].st # "live"]
  /\ Ends(r)
  /\ UNCHANGED <<code, verified, rate>>

\* _revoke_all_user_tokens.
RevokeAll(r) ==
  /\ req[r].pc = "replay"
  /\ token' = [t \in Tokens |-> IF t \in req[r].seen THEN [token[t] EXCEPT !.st = "revoked"] ELSE token[t]]
  /\ Ends(r)
  /\ UNCHANGED <<code, verified, rate, hist>>

\* logout: revoke_refresh_token, if the row is not revoked yet.
Logout(r, t) ==
  /\ token[t].st # "none"
  /\ token' = [token EXCEPT ![t].st = "revoked"]
  /\ Arrives(r, Idle)
  /\ UNCHANGED <<code, verified, rate, hist>>

-----------------------------------------------------------------------------
(* E-mail verification. *)

\* resend_verification: counted, then create_verification_code burns the
\* unused codes it sees.
Resend(r) ==
  /\ ~verified
  /\ Counted("resend") /\ Cap("resend")
  /\ Arrives(r, IF Allowed("resend") THEN [Idle EXCEPT !.pc = "resend", !.seen = LiveCodes] ELSE Idle)
  /\ UNCHANGED <<token, code, verified, hist>>

\* The burn and the new code are committed together.
CodeCreated(r) ==
  /\ req[r].pc = "resend" /\ NewCode <= MaxCode
  /\ code' = [c \in Codes |->
       CASE c = NewCode -> [st |-> "live", attempts |-> 0, old |-> FALSE]
         [] c \in req[r].seen -> [code[c] EXCEPT !.st = "used"]
         [] OTHER -> code[c]]
  /\ hist' = [hist EXCEPT !.code = @ \/ ~(LiveCodes \subseteq req[r].seen)]
  /\ Ends(r)
  /\ UNCHANGED <<token, verified, rate>>

\* verify_email: counted, then verify_code reads the newest unused code.
VerifyEmail(r, right) ==
  /\ Counted("verify") /\ Cap("verify")
  /\ Arrives(r, IF Allowed("verify") /\ ~verified /\ LiveCodes # {} /\ ~code[Max(LiveCodes)].old
                THEN [Idle EXCEPT !.pc = "verify", !.id = Max(LiveCodes), !.right = right,
                                  !.attempts = code[Max(LiveCodes)].attempts]
                ELSE Idle)
  /\ UNCHANGED <<token, code, verified, hist>>

\* Seeded fault: a wrong guess is not counted on the row.
BumpOnRight(r) == req[r].attempts + (IF req[r].right THEN 1 ELSE 0)

\* code.attempts += 1, on the value that was read.
Bump(r) == req[r].attempts + 1

\* The attempt is stored.  Over the cap the code is burned, otherwise it is
\* compared, and the right one verifies the user.
VerifyCode(r) ==
  LET c == req[r].id
      over == Bump(r) > MaxAttempts
  IN /\ req[r].pc = "verify"
     /\ code' = [code EXCEPT ![c].attempts = Bump(r),
                             ![c].st = IF over \/ req[r].right THEN "used" ELSE @]
     /\ verified' = (verified \/ (~over /\ req[r].right))
     /\ hist' = [hist EXCEPT !.answered[c] = IF over THEN @ ELSE @ + 1,
                             !.code = @ \/ code[c].attempts # req[r].attempts \/ code[c].st # "live"]
     /\ Ends(r)
     /\ UNCHANGED <<token, rate>>

-----------------------------------------------------------------------------

Next ==
  \/ Expire
  \/ \E k \in Routes : WindowEnds(k)
  \/ \E r \in Requests, ok \in BOOLEAN : Login(r, ok) \/ VerifyEmail(r, ok)
  \/ \E r \in Requests, t \in Tokens : Refresh(r, t) \/ Logout(r, t)
  \/ \E r \in Requests :
       \/ LoggedIn(r) \/ Rotate(r) \/ RevokeAll(r)
       \/ Resend(r) \/ CodeCreated(r) \/ VerifyCode(r)

Spec == Init /\ [][Next]_vars

-----------------------------------------------------------------------------

(* rotate_refresh_token: a login has at most one live refresh token, through
   any sequence of rotations, replays, logouts and expiries, unless a rotation
   was committed for a token that had been revoked since it was read. *)
OneLiveTokenPerLogin ==
  ~hist.token =>
    \A t, u \in LiveTokens : token[t].login = token[u].login => t = u

(* create_verification_code "always leaves exactly one live code", and
   verify_code compares at most email_verification_max_attempts guesses with a
   code, unless a commit hit a row that had changed since it was read. *)
OneLiveCodeAndCapped ==
  ~hist.code =>
    /\ Cardinality(LiveCodes) <= 1
    /\ \A c \in Codes : hist.answered[c] <= MaxAttempts
=============================================================================
