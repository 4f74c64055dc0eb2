--------------------------- MODULE ServiceProofs ---------------------------
(***************************************************************************)
(* Proofs about two services of the platform, for any requests, tokens,    *)
(* codes, retries, continuations, chunks and limits.                       *)
(*                                                                         *)
(* Accounts: a login keeps one live refresh token, and a code is not       *)
(* guessed at beyond its cap.                                              *)
(* Providers: what an LLM call shows is shown once and stored once, and an *)
(* attempt that ended is settled.                                          *)
(*                                                                         *)
(* The two share neither variables nor constants: each theorem is about    *)
(* the specification it names.                                             *)
(***************************************************************************)
EXTENDS Accounts, Providers, FiniteSetTheorems, SequenceTheorems, WellFoundedInduction, TLAPS


-----------------------------------------------------------------------------
(* Accounts                                                                *)

\* The rows, and what a request carries between its reads and its commit.
TokenRows == [st : {"none", "live", "revoked"}, login : Nat, old : BOOLEAN]
CodeRows == [st : {"none", "live", "used"}, attempts : Nat, old : BOOLEAN]
RequestRecords ==
  [pc : {"idle", "login", "rotate", "replay", "resend", "verify"}, id : Nat, seen : SUBSET Nat,
   attempts : Nat, right : BOOLEAN]

Shape ==
  /\ token \in [Tokens -> TokenRows]
  /\ code \in [Codes -> CodeRows]
  /\ req \in [Requests -> RequestRecords]
  /\ hist \in [answered : [Codes -> Nat], token : BOOLEAN, code : BOOLEAN]

\* The rows that have been inserted.
MadeTokens == {t \in Tokens : token[t].st # "none"}
MadeCodes == {c \in Codes : code[c].st # "none"}

\* Tokens are numbered without a gap, so the next one is new, and so is the
\* login it starts; a request carries rows that exist; and no two live tokens
\* descend from one login.
TokensInv ==
  /\ MadeTokens = 1..Cardinality(MadeTokens)
  /\ \A t \in MadeTokens : token[t].login <= t
  /\ \A r \in Requests : /\ req[r].pc = "rotate" => req[r].id \in MadeTokens
                         /\ req[r].pc = "replay" => req[r].seen \subseteq MadeTokens
  /\ ~hist.token => \A t, u \in LiveTokens : token[t].login = token[u].login => t = u

\* The same of the codes; and no more guesses have been compared with a code
\* than its row counts.
CodesInv ==
  /\ MadeCodes = 1..Cardinality(MadeCodes)
  /\ \A c \in Codes \ MadeCodes : hist.answered[c] = 0
  /\ \A r \in Requests : /\ req[r].pc = "verify" => req[r].id \in MadeCodes
                         /\ req[r].pc = "resend" => req[r].seen \subseteq MadeCodes
  /\ ~hist.code =>
       /\ \A c, d \in LiveCodes : c = d
       /\ \A c \in Codes : hist.answered[c] <= code[c].attempts /\ hist.answered[c] <= MaxAttempts

-----------------------------------------------------------------------------
(* The rows *)

\* The set of the rows is finite, and the first k+1 numbers are the first k and
\* the next.
LEMMA Counting ==
  ASSUME NEW S, NEW m \in Nat, S \subseteq 1..m
  PROVE  /\ Cardinality(S) \in Nat
         /\ S = 1..Cardinality(S) => S \cup {Cardinality(S) + 1} = 1..(Cardinality(S) + 1)
         /\ \A k \in Nat : Cardinality(1..k) = k
<1>1. Cardinality(S) \in Nat
  <2>1. IsFiniteSet(1..m)
    BY FS_Interval
  <2>2. IsFiniteSet(S)
    BY <2>1, FS_Subset
  <2> QED BY <2>2, FS_CardinalityType
<1>2. \A k \in Nat : (1..k) \cup {k + 1} = 1..(k + 1)
  OBVIOUS
<1>3. \A k \in Nat : Cardinality(1..k) = k
  BY FS_Interval
<1> QED BY <1>1, <1>2, <1>3

LEMMA NextToken ==
  ASSUME TokensInv
  PROVE  /\ NewToken \in Nat /\ MadeTokens \subseteq Nat
         /\ \A t \in MadeTokens : t < NewToken
         /\ MadeTokens \cup {NewToken} = 1..NewToken /\ Cardinality(1..NewToken) = NewToken
         /\ NewToken <= MaxToken => NewToken \in Tokens
<1>1. MadeTokens \subseteq 1..MaxToken /\ MaxToken \in Nat
  BY BoundsAssumption DEF MadeTokens, Tokens
<1>2. NewToken = Cardinality(MadeTokens) + 1
  BY DEF NewToken, MadeTokens
<1>3. MadeTokens = 1..Cardinality(MadeTokens)
  BY DEF TokensInv
<1>4. /\ Cardinality(MadeTokens) \in Nat
      /\ MadeTokens \cup {NewToken} = 1..NewToken
      /\ \A k \in Nat : Cardinality(1..k) = k
  BY <1>1, <1>2, <1>3, Counting
<1>5. NewToken \in Nat /\ NewToken >= 1
  BY <1>2, <1>4
<1>6. NewToken <= MaxToken => NewToken \in Tokens
  BY <1>1, <1>5 DEF Tokens
<1>7. ASSUME NEW t \in MadeTokens PROVE t < NewToken
  BY <1>2, <1>3, <1>4
<1> QED BY <1>1, <1>4, <1>5, <1>6, <1>7

LEMMA NextCode ==
  ASSUME CodesInv
  PROVE  /\ NewCode \in Nat /\ MadeCodes \subseteq Nat
         /\ NewCode \notin MadeCodes
         /\ MadeCodes \cup {NewCode} = 1..NewCode /\ Cardinality(1..NewCode) = NewCode
         /\ NewCode <= MaxCode => NewCode \in Codes
<1>1. MadeCodes \subseteq 1..MaxCode /\ MaxCode \in Nat
  BY BoundsAssumption DEF MadeCodes, Codes
<1>2. NewCode = Cardinality(MadeCodes) + 1
  BY DEF NewCode, MadeCodes
<1>3. MadeCodes = 1..Cardinality(MadeCodes)
  BY DEF CodesInv
<1>4. /\ Cardinality(MadeCodes) \in Nat
      /\ MadeCodes \cup {NewCode} = 1..NewCode
      /\ \A k \in Nat : Cardinality(1..k) = k
  BY <1>1, <1>2, <1>3, Counting
<1>5. NewCode \in Nat /\ NewCode >= 1
  BY <1>2, <1>4
<1>6. NewCode <= MaxCode => NewCode \in Codes
  BY <1>1, <1>5 DEF Codes
<1>7. NewCode \notin MadeCodes
  BY <1>2, <1>3, <1>4
<1> QED BY <1>1, <1>4, <1>5, <1>6, <1>7

\* A set of numbers that has a bound has a greatest one.
LEMMA GreatestIsIn ==
  ASSUME NEW S, NEW m \in Nat, S \subseteq 1..m, S # {}
  PROVE  Max(S) \in S
<1> DEFINE U == {u \in Nat : \A y \in S : y <= u}
<1>1. m \in U
  OBVIOUS
<1>2. PICK u \in U : \A v \in U : ~(<<v, u>> \in OpToRel(<, Nat))
  BY <1>1, NatLessThanWellFounded, WFMin, Zenon
<1>3. ASSUME NEW v \in U PROVE ~(v < u)
  <2>1. v \in Nat /\ u \in Nat
    OBVIOUS
  <2> QED BY <1>2, <2>1, Zenon DEF OpToRel
<1>4. u \in S
  <2> SUFFICES ASSUME u \notin S PROVE FALSE
    OBVIOUS
  <2>1. PICK y \in S : TRUE
    OBVIOUS
  <2>2. u \in Nat /\ u - 1 \in Nat /\ u - 1 < u
    BY <2>1
  <2>3. \A z \in S : z <= u - 1
    OBVIOUS
  <2> QED BY <1>3, <2>2, <2>3
<1>5. u \in S /\ \A y \in S : u >= y
  BY <1>4
<1> QED BY <1>5 DEF Max

\* What a request waits with.
LEMMA ArrivesTyped ==
  ASSUME Shape, NEW r \in Requests, NEW rec \in RequestRecords, Arrives(r, rec)
  PROVE  req' \in [Requests -> RequestRecords] /\ \A q \in Requests : req'[q] = IF q = r THEN rec ELSE req[q]
BY DEF Arrives, Shape

LEMMA IdleTyped == Idle \in RequestRecords /\ Idle.pc = "idle"
BY DEF Idle, RequestRecords

LEMMA EndsTyped ==
  ASSUME Shape, NEW r \in Requests, Ends(r)
  PROVE  req' \in [Requests -> RequestRecords] /\ \A q \in Requests : req'[q] = IF q = r THEN Idle ELSE req[q]
BY IdleTyped DEF Ends, Shape

-----------------------------------------------------------------------------
(* Sessions *)

\* Rows are revoked or get old, and requests read them.
LEMMA TokensMove ==
  ASSUME TokensInv, hist'.token = hist.token,
         \A t \in Tokens : /\ token'[t].st = "none" <=> token[t].st = "none"
                           /\ token'[t].login = token[t].login
                           /\ token'[t].st = "live" => token[t].st = "live",
         \A r \in Requests : /\ req'[r].pc = "rotate" => req'[r].id \in MadeTokens
                             /\ req'[r].pc = "replay" => req'[r].seen \subseteq MadeTokens
  PROVE  TokensInv'
<1>1. MadeTokens' = MadeTokens
  BY DEF MadeTokens
<1>2. MadeTokens \subseteq Tokens /\ LiveTokens' \subseteq LiveTokens /\ LiveTokens \subseteq Tokens
  BY DEF MadeTokens, LiveTokens
<1>3. \A t \in MadeTokens : token'[t].login <= t
  BY <1>2 DEF TokensInv
<1>4. ~hist'.token => \A t, u \in LiveTokens' : token'[t].login = token'[u].login => t = u
  BY <1>2 DEF TokensInv
<1>5. MadeTokens' = 1..Cardinality(MadeTokens')
  BY <1>1 DEF TokensInv
<1> QED BY <1>1, <1>3, <1>4, <1>5 DEF TokensInv

\* A token is added: the first of a login, or in the place of the only live one.
LEMMA TokensGrow ==
  ASSUME Shape, TokensInv, NewToken <= MaxToken, NEW login \in Nat, login <= NewToken,
         \A t \in Tokens :
           IF t = NewToken THEN token'[t].st = "live" /\ token'[t].login = login
           ELSE /\ token'[t].st = "none" <=> token[t].st = "none"
                /\ token'[t].login = token[t].login
                /\ token'[t].st = "live" => token[t].st = "live",
         hist.token => hist'.token,
         ~hist'.token => \A t \in LiveTokens : token[t].login = login => token'[t].st # "live",
         \A r \in Requests : req'[r] = req[r] \/ req'[r].pc = "idle"
  PROVE  TokensInv'
<1>1. /\ NewToken \in Nat /\ \A t \in MadeTokens : t < NewToken /\ t \in Nat
      /\ NewToken \in Tokens
      /\ MadeTokens \cup {NewToken} = 1..NewToken /\ Cardinality(1..NewToken) = NewToken
  BY NextToken
<1>2. MadeTokens' = MadeTokens \cup {NewToken}
  <2>1. \A t \in Tokens : token'[t].st # "none" <=> (token[t].st # "none" \/ t = NewToken)
    OBVIOUS
  <2> QED BY <1>1, <2>1 DEF MadeTokens
<1>3. MadeTokens' = 1..Cardinality(MadeTokens')
  BY <1>1, <1>2
<1>4. ASSUME NEW t \in MadeTokens' PROVE token'[t].login <= t
  <2>1. CASE t = NewToken
    BY <1>1, <2>1
  <2>2. CASE t # NewToken
    <3>1. t \in MadeTokens /\ t \in Tokens
      BY <1>2, <2>2 DEF MadeTokens
    <3>2. token'[t].login = token[t].login
      BY <2>2, <3>1
    <3> QED BY <3>1, <3>2 DEF TokensInv
  <2> QED BY <2>1, <2>2
<1>5. \A r \in Requests : /\ req'[r].pc = "rotate" => req'[r].id \in MadeTokens'
                          /\ req'[r].pc = "replay" => req'[r].seen \subseteq MadeTokens'
  BY <1>2 DEF TokensInv
<1>6. ASSUME ~hist'.token, NEW t \in LiveTokens', NEW u \in LiveTokens', token'[t].login = token'[u].login
      PROVE  t = u
  <2>1. ASSUME NEW v \in LiveTokens', v # NewToken
        PROVE  v \in LiveTokens /\ token'[v].login = token[v].login /\ token[v].login # login
    <3>1. v \in Tokens /\ token'[v].st = "live"
      BY <2>1 DEF LiveTokens
    <3>2. v \in LiveTokens /\ token'[v].login = token[v].login
      BY <2>1, <3>1 DEF LiveTokens
    <3> QED BY <1>6, <3>1, <3>2
  <2>2. token'[NewToken].login = login
    BY <1>1
  <2>3. CASE t # NewToken /\ u # NewToken
    BY <1>6, <2>1, <2>3 DEF TokensInv
  <2> QED BY <1>6, <2>1, <2>2, <2>3
<1> QED BY <1>3, <1>4, <1>5, <1>6 DEF TokensInv

-----------------------------------------------------------------------------
(* Verification codes *)

\* Codes get old, and requests read them.
LEMMA CodesMove ==
  ASSUME CodesInv, hist'.code = hist.code, hist'.answered = hist.answered,
         \A c \in Codes : code'[c].st = code[c].st /\ code'[c].attempts = code[c].attempts,
         \A r \in Requests : /\ req'[r].pc = "verify" => req'[r].id \in MadeCodes
                             /\ req'[r].pc = "resend" => req'[r].seen \subseteq MadeCodes
  PROVE  CodesInv'
<1>1. MadeCodes' = MadeCodes /\ LiveCodes' = LiveCodes
  BY DEF MadeCodes, LiveCodes
<1>2. MadeCodes' = 1..Cardinality(MadeCodes')
  BY <1>1 DEF CodesInv
<1>3. \A c \in Codes \ MadeCodes' : hist'.answered[c] = 0
  BY <1>1 DEF CodesInv
<1>4. ~hist'.code =>
        /\ \A c, d \in LiveCodes' : c = d
        /\ \A c \in Codes : hist'.answered[c] <= code'[c].attempts /\ hist'.answered[c] <= MaxAttempts
  BY <1>1 DEF CodesInv
<1> QED BY <1>1, <1>2, <1>3, <1>4 DEF CodesInv

-----------------------------------------------------------------------------
(* The steps *)

AccountsInv == Shape /\ TokensInv /\ CodesInv

\* A request that arrives and only reads: what it carries are rows that exist.
LEMMA ArrivesStep ==
  ASSUME AccountsInv, NEW r \in Requests, NEW rec \in RequestRecords, Arrives(r, rec),
         UNCHANGED <<token, code, hist>>,
         rec.pc = "rotate" => rec.id \in MadeTokens,
         rec.pc = "replay" => rec.seen \subseteq MadeTokens,
         rec.pc = "verify" => rec.id \in MadeCodes,
         rec.pc = "resend" => rec.seen \subseteq MadeCodes
  PROVE  AccountsInv'
<1>1. /\ req' \in [Requests -> RequestRecords]
      /\ \A q \in Requests : req'[q] = IF q = r THEN rec ELSE req[q]
  BY ArrivesTyped DEF AccountsInv
<1>2. Shape'
  BY <1>1 DEF AccountsInv, Shape
<1>3. TokensInv'
  <2>1. \A q \in Requests : /\ req'[q].pc = "rotate" => req'[q].id \in MadeTokens
                            /\ req'[q].pc = "replay" => req'[q].seen \subseteq MadeTokens
    BY <1>1 DEF AccountsInv, TokensInv
  <2> QED BY <2>1, TokensMove DEF AccountsInv
<1>4. CodesInv'
  <2>1. \A q \in Requests : /\ req'[q].pc = "verify" => req'[q].id \in MadeCodes
                            /\ req'[q].pc = "resend" => req'[q].seen \subseteq MadeCodes
    BY <1>1 DEF AccountsInv, CodesInv
  <2> QED BY <2>1, CodesMove DEF AccountsInv
<1> QED BY <1>2, <1>3, <1>4 DEF AccountsInv

LEMMA ReadsStep ==
  ASSUME AccountsInv, NEW r \in Requests
  PROVE  /\ \A ok \in BOOLEAN : Login(r, ok) \/ VerifyEmail(r, ok) => AccountsInv'
         /\ \A t \in Tokens : Refresh(r, t) => AccountsInv'
         /\ Resend(r) => AccountsInv'
<1>0. Idle \in RequestRecords /\ Idle.pc = "idle"
  BY IdleTyped
<1>1. ASSUME NEW ok \in BOOLEAN, Login(r, ok) PROVE AccountsInv'
  <2> DEFINE rec == IF Allowed("login") /\ ok THEN [Idle EXCEPT !.pc = "login"] ELSE Idle
  <2>1. rec \in RequestRecords /\ rec.pc \in {"login", "idle"}
    BY <1>0 DEF RequestRecords
  <2>2. Arrives(r, rec) /\ UNCHANGED <<token, code, hist>>
    BY <1>1 DEF Login
  <2> HIDE DEF rec
  <2> QED BY <2>1, <2>2, ArrivesStep
<1>2. ASSUME NEW right \in BOOLEAN, VerifyEmail(r, right) PROVE AccountsInv'
  <2> DEFINE top == Max(LiveCodes)
             carried == [Idle EXCEPT !.pc = "verify", !.id = top, !.right = right,
                                     !.attempts = code[top].attempts]
  <2>1. UNCHANGED <<token, code, hist>>
    BY <1>2 DEF VerifyEmail
  <2>2. CASE Arrives(r, Idle)
    BY <1>0, <2>1, <2>2, ArrivesStep
  <2>3. CASE Arrives(r, carried) /\ LiveCodes # {}
    <3>1. LiveCodes \subseteq 1..MaxCode /\ MaxCode \in Nat
      BY BoundsAssumption DEF LiveCodes, Codes
    <3>2. top \in LiveCodes
      BY <2>3, <3>1, GreatestIsIn
    <3>3. top \in MadeCodes /\ top \in Nat /\ code[top].attempts \in Nat
      BY <3>1, <3>2 DEF LiveCodes, MadeCodes, AccountsInv, Shape, CodeRows
    <3> HIDE DEF top
    <3>4. carried \in RequestRecords /\ carried.pc = "verify" /\ carried.id = top
      BY <1>0, <3>3 DEF RequestRecords
    <3> HIDE DEF carried
    <3> QED BY <2>1, <2>3, <3>3, <3>4, ArrivesStep
  <2>4. Arrives(r, Idle) \/ (Arrives(r, carried) /\ LiveCodes # {})
    BY <1>2 DEF VerifyEmail
  <2> QED BY <2>2, <2>3, <2>4
<1>3. ASSUME NEW t \in Tokens, Refresh(r, t) PROVE AccountsInv'
  <2> DEFINE replay == [Idle EXCEPT !.pc = "replay", !.seen = LiveTokens]
             rotate == [Idle EXCEPT !.pc = "rotate", !.id = t]
  <2>1. UNCHANGED <<token, code, hist>> /\ t \in MadeTokens
    BY <1>3 DEF Refresh, MadeTokens
  <2>2. Arrives(r, replay) \/ Arrives(r, rotate)
    BY <1>3 DEF Refresh
  <2>3. LiveTokens \in SUBSET Nat /\ LiveTokens \subseteq MadeTokens /\ t \in Nat
    BY BoundsAssumption DEF LiveTokens, MadeTokens, Tokens
  <2>4. replay \in RequestRecords /\ replay.pc = "replay" /\ replay.seen = LiveTokens
    BY <1>0, <2>3 DEF RequestRecords
  <2>5. rotate \in RequestRecords /\ rotate.pc = "rotate" /\ rotate.id = t
    BY <1>0, <2>3 DEF RequestRecords
  <2> HIDE DEF replay, rotate
  <2>6. CASE Arrives(r, replay)
    BY <2>1, <2>3, <2>4, <2>6, ArrivesStep
  <2>7. CASE Arrives(r, rotate)
    BY <2>1, <2>5, <2>7, ArrivesStep
  <2> QED BY <2>2, <2>6, <2>7
<1>4. ASSUME Resend(r) PROVE AccountsInv'
  <2> DEFINE carried == [Idle EXCEPT !.pc = "resend", !.seen = LiveCodes]
  <2>1. UNCHANGED <<token, code, hist>> /\ (Arrives(r, Idle) \/ Arrives(r, carried))
    BY <1>4 DEF Resend
  <2>2. LiveCodes \in SUBSET Nat /\ LiveCodes \subseteq MadeCodes
    BY BoundsAssumption DEF LiveCodes, MadeCodes, Codes
  <2>3. carried \in RequestRecords /\ carried.pc = "resend" /\ carried.seen = LiveCodes
    BY <1>0, <2>2 DEF RequestRecords
  <2> HIDE DEF carried
  <2>4. CASE Arrives(r, Idle)
    BY <1>0, <2>1, <2>4, ArrivesStep
  <2>5. CASE Arrives(r, carried)
    BY <2>1, <2>2, <2>3, <2>5, ArrivesStep
  <2> QED BY <2>1, <2>4, <2>5
<1> QED BY <1>1, <1>2, <1>3, <1>4

\* A commit that leaves the codes alone.
LEMMA CodesLeft ==
  ASSUME AccountsInv, code' = code, hist'.code = hist.code, hist'.answered = hist.answered,
         \A r \in Requests : req'[r] = req[r] \/ req'[r].pc = "idle"
  PROVE  CodesInv'
<1>1. \A r \in Requests : /\ req'[r].pc = "verify" => req'[r].id \in MadeCodes
                          /\ req'[r].pc = "resend" => req'[r].seen \subseteq MadeCodes
  BY DEF AccountsInv, CodesInv
<1> QED BY <1>1, CodesMove DEF AccountsInv

\* A commit that only revokes.
LEMMA TokensLeft ==
  ASSUME AccountsInv, hist'.token = hist.token,
         \A t \in Tokens : /\ token'[t].st = "none" <=> token[t].st = "none"
                           /\ token'[t].login = token[t].login
                           /\ token'[t].st = "live" => token[t].st = "live",
         \A r \in Requests : req'[r] = req[r] \/ req'[r].pc = "idle"
  PROVE  TokensInv'
<1>1. \A r \in Requests : /\ req'[r].pc = "rotate" => req'[r].id \in MadeTokens
                          /\ req'[r].pc = "replay" => req'[r].seen \subseteq MadeTokens
  BY DEF AccountsInv, TokensInv
<1> QED BY <1>1, TokensMove DEF AccountsInv

LEMMA ExpireStep == AccountsInv /\ Expire => AccountsInv'
<1> SUFFICES ASSUME AccountsInv, Expire PROVE AccountsInv'
  OBVIOUS
<1>0. UNCHANGED <<req, hist>>
  BY DEF Expire
<1>1. ASSUME NEW t \in LiveTokens, token' = [token EXCEPT ![t].old = TRUE], code' = code
      PROVE  AccountsInv'
  <2>1. token' \in [Tokens -> TokenRows]
        /\ \A u \in Tokens : token'[u].st = token[u].st /\ token'[u].login = token[u].login
    BY <1>1 DEF AccountsInv, Shape, TokenRows
  <2>2. Shape'
    BY <1>0, <1>1, <2>1 DEF AccountsInv, Shape
  <2> QED BY <1>0, <1>1, <2>1, <2>2, TokensLeft, CodesLeft DEF AccountsInv
<1>2. ASSUME NEW c \in LiveCodes, code' = [code EXCEPT ![c].old = TRUE], token' = token
      PROVE  AccountsInv'
  <2>1. code' \in [Codes -> CodeRows]
        /\ \A d \in Codes : code'[d].st = code[d].st /\ code'[d].attempts = code[d].attempts
    BY <1>2 DEF AccountsInv, Shape, CodeRows
  <2>2. Shape'
    BY <1>0, <1>2, <2>1 DEF AccountsInv, Shape
  <2>3. TokensInv'
    BY <1>0, <1>2, TokensLeft
  <2>4. CodesInv'
    BY <1>0, <2>1, CodesMove DEF AccountsInv, CodesInv
  <2> QED BY <2>2, <2>3, <2>4 DEF AccountsInv
<1> QED BY <1>1, <1>2 DEF Expire

\* The commits on the session rows.
LEMMA SessionsStep ==
  ASSUME AccountsInv, NEW r \in Requests
  PROVE  /\ LoggedIn(r) => AccountsInv'
         /\ Rotate(r) => AccountsInv'
         /\ RevokeAll(r) => AccountsInv'
         /\ \A t \in Tokens : Logout(r, t) => AccountsInv'
<1>0. Shape /\ TokensInv /\ token \in [Tokens -> TokenRows]
  BY DEF AccountsInv, Shape
<1>1. ASSUME Ends(r)
      PROVE  /\ req' \in [Requests -> RequestRecords]
             /\ \A q \in Requests : req'[q] = req[q] \/ req'[q].pc = "idle"
  BY <1>0, <1>1, EndsTyped, IdleTyped
<1> DEFINE fresh(login) == [st |-> "live", login |-> login, old |-> FALSE]
<1>2. ASSUME NEW login \in Nat
      PROVE  /\ fresh(login) \in TokenRows
             /\ fresh(login).st = "live" /\ fresh(login).login = login
  BY DEF TokenRows
<1>3. ASSUME LoggedIn(r) PROVE AccountsInv'
  <2>1. /\ NewToken <= MaxToken /\ token' = [token EXCEPT ![NewToken] = fresh(NewToken)]
        /\ Ends(r) /\ UNCHANGED <<code, hist>>
    BY <1>3 DEF LoggedIn, Issue
  <2>2. /\ NewToken \in Nat /\ NewToken \in Tokens
        /\ \A t \in MadeTokens : t < NewToken /\ t \in Nat
    BY <1>0, <2>1, NextToken
  <2>3. \A t \in Tokens : token'[t] = IF t = NewToken THEN fresh(NewToken) ELSE token[t]
    BY <1>0, <2>1
  <2>4. token' \in [Tokens -> TokenRows]
    BY <1>0, <1>2, <2>1, <2>2
  <2>5. ASSUME NEW t \in LiveTokens PROVE token[t].login # NewToken
    <3>1. t \in MadeTokens
      BY DEF LiveTokens, MadeTokens
    <3>2. token[t].login <= t /\ t < NewToken /\ t \in Nat /\ token[t].login \in Nat
      BY <1>0, <2>2, <3>1 DEF TokensInv, MadeTokens, TokenRows
    <3> QED BY <2>2, <3>2
  <2> HIDE DEF fresh
  <2>6. TokensInv'
    BY <1>0, <1>1, <1>2, <2>1, <2>2, <2>3, <2>5, TokensGrow
  <2>7. Shape'
    BY <1>1, <2>1, <2>4 DEF AccountsInv, Shape
  <2> QED BY <1>1, <2>1, <2>6, <2>7, CodesLeft DEF AccountsInv
<1>4. ASSUME Rotate(r) PROVE AccountsInv'
  <2> DEFINE id == req[r].id
             login == token[id].login
             base == [token EXCEPT ![NewToken] = fresh(login)]
  <2>1. /\ NewToken <= MaxToken /\ token' = [base EXCEPT ![id].st = "revoked"]
        /\ hist' = [hist EXCEPT !.token = @ \/ token[id].st # "live"]
        /\ Ends(r) /\ code' = code /\ req[r].pc = "rotate"
    BY <1>4 DEF Rotate, Rotated, Issue
  <2>2. /\ NewToken \in Nat /\ NewToken \in Tokens
        /\ \A t \in MadeTokens : t < NewToken /\ t \in Nat
    BY <1>0, <2>1, NextToken
  <2>3. id \in MadeTokens /\ id \in Tokens /\ id # NewToken /\ id \in Nat
    <3>1. id \in MadeTokens
      BY <1>0, <2>1 DEF TokensInv
    <3>2. id < NewToken /\ id \in Nat
      BY <2>2, <3>1
    <3> QED BY <2>2, <3>1, <3>2 DEF MadeTokens
  <2>4. login \in Nat /\ login <= id
    BY <1>0, <2>3 DEF TokensInv, TokenRows
  <2>5. login <= NewToken
    BY <2>2, <2>3, <2>4
  <2>6. base \in [Tokens -> TokenRows]
        /\ \A t \in Tokens : base[t] = IF t = NewToken THEN fresh(login) ELSE token[t]
    BY <1>0, <1>2, <2>2, <2>4
  <2> HIDE DEF base
  <2>7. /\ token' \in [Tokens -> TokenRows]
        /\ \A t \in Tokens : t # id => token'[t] = base[t]
        /\ token'[id].st = "revoked" /\ token'[id].login = base[id].login
    BY <2>1, <2>3, <2>6 DEF TokenRows
  <2>8. token[id].st # "none"
    BY <2>3 DEF MadeTokens
  <2>9. ASSUME NEW t \in Tokens
        PROVE  IF t = NewToken THEN token'[t].st = "live" /\ token'[t].login = login
               ELSE /\ token'[t].st = "none" <=> token[t].st = "none"
                    /\ token'[t].login = token[t].login
                    /\ token'[t].st = "live" => token[t].st = "live"
    <3>1. CASE t = NewToken
      BY <1>2, <2>3, <2>4, <2>6, <2>7, <3>1
    <3>2. CASE t = id
      BY <2>3, <2>6, <2>7, <2>8, <3>2
    <3>3. CASE t # NewToken /\ t # id
      BY <2>6, <2>7, <3>3
    <3> QED BY <3>1, <3>2, <3>3
  <2>10. /\ hist'.token = (hist.token \/ token[id].st # "live")
         /\ hist'.code = hist.code /\ hist'.answered = hist.answered
         /\ hist' \in [answered : [Codes -> Nat], token : BOOLEAN, code : BOOLEAN]
    BY <2>1 DEF AccountsInv, Shape
  <2>11. ASSUME ~hist'.token, NEW t \in LiveTokens, token[t].login = login
         PROVE  token'[t].st # "live"
    <3>1. id \in LiveTokens /\ ~hist.token
      BY <2>3, <2>10, <2>11 DEF LiveTokens
    <3>2. t = id
      BY <1>0, <2>11, <3>1 DEF TokensInv
    <3> QED BY <2>7, <3>2
  <2> HIDE DEF login, id
  <2>12. TokensInv'
    BY <1>0, <1>1, <2>1, <2>4, <2>5, <2>9, <2>10, <2>11, TokensGrow
  <2>13. Shape'
    BY <1>1, <2>1, <2>7, <2>10 DEF AccountsInv, Shape
  <2> QED BY <1>1, <2>1, <2>10, <2>12, <2>13, CodesLeft DEF AccountsInv
<1>5. ASSUME RevokeAll(r) PROVE AccountsInv'
  <2>1. /\ req[r].pc = "replay" /\ Ends(r) /\ UNCHANGED <<code, hist>>
        /\ token' = [t \in Tokens |-> IF t \in req[r].seen THEN [token[t] EXCEPT !.st = "revoked"]
                                      ELSE token[t]]
    BY <1>5 DEF RevokeAll
  <2>2. \A t \in req[r].seen : token[t].st # "none"
    BY <1>0, <2>1 DEF TokensInv, MadeTokens
  <2>3. ASSUME NEW t \in Tokens
        PROVE  /\ token'[t] \in TokenRows
               /\ token'[t].st = "none" <=> token[t].st = "none"
               /\ token'[t].login = token[t].login
               /\ token'[t].st = "live" => token[t].st = "live"
    <3>1. CASE t \in req[r].seen
      <4>1. token'[t] = [token[t] EXCEPT !.st = "revoked"]
        BY <2>1, <3>1
      <4> QED BY <1>0, <2>2, <3>1, <4>1 DEF TokenRows
    <3>2. CASE t \notin req[r].seen
      BY <1>0, <2>1, <3>2
    <3> QED BY <3>1, <3>2
  <2>4. Shape'
    BY <1>1, <2>1, <2>3 DEF AccountsInv, Shape
  <2> QED BY <1>1, <2>1, <2>3, <2>4, TokensLeft, CodesLeft DEF AccountsInv
<1>6. ASSUME NEW t \in Tokens, Logout(r, t) PROVE AccountsInv'
  <2>1. /\ token[t].st # "none" /\ token' = [token EXCEPT ![t].st = "revoked"]
        /\ Arrives(r, Idle) /\ UNCHANGED <<code, hist>>
    BY <1>6 DEF Logout
  <2>2. /\ req' \in [Requests -> RequestRecords]
        /\ \A q \in Requests : req'[q] = req[q] \/ req'[q].pc = "idle"
    BY <1>0, <2>1, ArrivesTyped, IdleTyped
  <2>3. /\ token' \in [Tokens -> TokenRows]
        /\ \A u \in Tokens : /\ token'[u].st = (IF u = t THEN "revoked" ELSE token[u].st)
                             /\ token'[u].login = token[u].login
    BY <1>0, <2>1 DEF TokenRows
  <2>4. Shape'
    BY <2>1, <2>2, <2>3 DEF AccountsInv, Shape
  <2> QED BY <2>1, <2>2, <2>3, <2>4, TokensLeft, CodesLeft DEF AccountsInv
<1> QED BY <1>3, <1>4, <1>5, <1>6

\* The commits on the codes.
LEMMA CodesStep ==
  ASSUME AccountsInv, NEW r \in Requests
  PROVE  /\ CodeCreated(r) => AccountsInv'
         /\ VerifyCode(r) => AccountsInv'
<1>0. /\ Shape /\ CodesInv /\ code \in [Codes -> CodeRows] /\ MaxAttempts \in Nat
      /\ hist.answered \in [Codes -> Nat]
  BY BoundsAssumption DEF AccountsInv, Shape
<1>1. ASSUME Ends(r)
      PROVE  /\ req' \in [Requests -> RequestRecords]
             /\ \A q \in Requests : req'[q] = req[q] \/ req'[q].pc = "idle"
  BY <1>0, <1>1, EndsTyped, IdleTyped
<1>2. ASSUME CodeCreated(r) PROVE AccountsInv'
  <2> DEFINE fresh == [st |-> "live", attempts |-> 0, old |-> FALSE]
             before == req[r].seen
  <2>1. /\ req[r].pc = "resend" /\ NewCode <= MaxCode /\ Ends(r) /\ token' = token
        /\ hist' = [hist EXCEPT !.code = @ \/ ~(LiveCodes \subseteq before)]
        /\ code' = [c \in Codes |-> CASE c = NewCode -> fresh
                                      [] c \in before -> [code[c] EXCEPT !.st = "used"]
                                      [] OTHER -> code[c]]
    BY <1>2 DEF CodeCreated
  <2>2. /\ NewCode \in Codes /\ NewCode \notin MadeCodes
        /\ MadeCodes \cup {NewCode} = 1..NewCode /\ Cardinality(1..NewCode) = NewCode
    BY <1>0, <2>1, NextCode
  <2>3. before \subseteq MadeCodes /\ NewCode \notin before
    BY <1>0, <2>1, <2>2 DEF CodesInv
  <2>4. fresh \in CodeRows /\ fresh.st = "live" /\ fresh.attempts = 0
    BY DEF CodeRows
  <2> HIDE DEF fresh
  <2>5. ASSUME NEW c \in Codes
        PROVE  /\ code'[c] \in CodeRows
               /\ c = NewCode => code'[c].st = "live" /\ code'[c].attempts = 0
               /\ c # NewCode => code'[c].attempts = code[c].attempts
               /\ c \in before => code'[c].st = "used"
               /\ c \notin before /\ c # NewCode => code'[c].st = code[c].st
    <3>1. CASE c = NewCode
      <4>1. code'[c] = fresh
        BY <2>1, <2>3, <3>1
      <4> QED BY <2>3, <2>4, <3>1, <4>1
    <3>2. CASE c \in before
      <4>1. c # NewCode
        BY <2>3, <3>2
      <4>2. code'[c] = [code[c] EXCEPT !.st = "used"]
        BY <2>1, <3>2, <4>1
      <4> QED BY <1>0, <3>2, <4>1, <4>2 DEF CodeRows
    <3>3. CASE c # NewCode /\ c \notin before
      <4>1. code'[c] = code[c]
        BY <2>1, <3>3
      <4> QED BY <1>0, <3>3, <4>1
    <3> QED BY <3>1, <3>2, <3>3
  <2>6. /\ hist'.token = hist.token /\ hist'.answered = hist.answered
        /\ hist'.code = (hist.code \/ ~(LiveCodes \subseteq before))
        /\ hist' \in [answered : [Codes -> Nat], token : BOOLEAN, code : BOOLEAN]
    BY <2>1 DEF AccountsInv, Shape
  <2>7. code' \in [Codes -> CodeRows]
    BY <2>1, <2>5
  <2>8. MadeCodes' = MadeCodes \cup {NewCode}
    <3>1. \A c \in Codes : code'[c].st # "none" <=> (c \in MadeCodes \/ c = NewCode)
      BY <2>3, <2>5 DEF MadeCodes
    <3> QED BY <2>2, <3>1 DEF MadeCodes
  <2>9. MadeCodes' = 1..Cardinality(MadeCodes')
    BY <2>2, <2>8
  <2>10. \A c \in Codes \ MadeCodes' : hist'.answered[c] = 0
    BY <1>0, <2>6, <2>8 DEF CodesInv
  <2>11. \A q \in Requests : /\ req'[q].pc = "verify" => req'[q].id \in MadeCodes'
                             /\ req'[q].pc = "resend" => req'[q].seen \subseteq MadeCodes'
    BY <1>0, <1>1, <2>1, <2>8 DEF CodesInv
  <2>12. ASSUME ~hist'.code, NEW c \in LiveCodes' PROVE c = NewCode
    <3>1. c \in Codes /\ code'[c].st = "live" /\ LiveCodes \subseteq before
      BY <2>6, <2>12 DEF LiveCodes
    <3> QED BY <2>5, <3>1 DEF LiveCodes
  <2>13. ASSUME ~hist'.code, NEW c \in Codes
         PROVE  hist'.answered[c] <= code'[c].attempts /\ hist'.answered[c] <= MaxAttempts
    <3>1. CASE c = NewCode
      <4>1. hist'.answered[c] = 0 /\ code'[c].attempts = 0
        BY <1>0, <2>2, <2>5, <2>6, <3>1 DEF CodesInv
      <4> QED BY <1>0, <4>1
    <3>2. CASE c # NewCode
      BY <1>0, <2>5, <2>6, <2>13, <3>2 DEF CodesInv
    <3> QED BY <3>1, <3>2
  <2>14. CodesInv'
    BY <2>9, <2>10, <2>11, <2>12, <2>13 DEF CodesInv
  <2>15. Shape'
    BY <1>1, <2>1, <2>6, <2>7 DEF AccountsInv, Shape
  <2>16. TokensInv'
    BY <1>1, <2>1, <2>6, TokensLeft
  <2> QED BY <2>14, <2>15, <2>16 DEF AccountsInv
<1>3. ASSUME VerifyCode(r) PROVE AccountsInv'
  <2> DEFINE k == req[r].id
             n == Bump(r)
             over == n > MaxAttempts
             st == IF over \/ req[r].right THEN "used" ELSE code[k].st
             stale == code[k].attempts # req[r].attempts \/ code[k].st # "live"
             counted == IF over THEN hist.answered[k] ELSE hist.answered[k] + 1
  <2>1. /\ req[r].pc = "verify" /\ Ends(r) /\ token' = token
        /\ code' = [code EXCEPT ![k].attempts = n,
                                ![k].st = IF over \/ req[r].right THEN "used" ELSE @]
        /\ hist' = [hist EXCEPT !.answered[k] = IF over THEN @ ELSE @ + 1, !.code = @ \/ stale]
    BY <1>3 DEF VerifyCode
  <2>2. k \in MadeCodes /\ k \in Codes
    BY <1>0, <2>1 DEF CodesInv, MadeCodes
  <2>3. n \in Nat /\ n = req[r].attempts + 1
    BY <1>0 DEF Bump, Shape, RequestRecords
  <2>4. code[k].st \in {"live", "used"} /\ st \in {"live", "used"} /\ (st = "live" => code[k].st = "live")
    BY <1>0, <2>2 DEF MadeCodes, CodeRows
  <2>5. hist.answered[k] \in Nat /\ counted \in Nat
    BY <1>0, <2>2
  <2> HIDE DEF n, stale
  <2>6. /\ code' \in [Codes -> CodeRows]
        /\ code'[k].attempts = n /\ code'[k].st = st
        /\ \A c \in Codes : c # k => code'[c] = code[c]
    BY <1>0, <2>1, <2>2, <2>3 DEF CodeRows
  <2>7. /\ hist'.token = hist.token /\ hist'.code = (hist.code \/ stale)
        /\ hist'.answered = [hist.answered EXCEPT ![k] = counted]
    BY <2>1 DEF AccountsInv, Shape
  <2>8. hist' \in [answered : [Codes -> Nat], token : BOOLEAN, code : BOOLEAN]
    <3>1. hist'.answered \in [Codes -> Nat]
      BY <1>0, <2>5, <2>7
    <3>2. hist' = [answered |-> hist'.answered, token |-> hist'.token, code |-> hist'.code]
      BY <2>1 DEF AccountsInv, Shape
    <3> QED BY <2>7, <3>1, <3>2 DEF AccountsInv, Shape, stale
  <2>9. \A c \in Codes : hist'.answered[c] = IF c = k THEN counted ELSE hist.answered[c]
    BY <1>0, <2>7
  <2>10. MadeCodes' = MadeCodes /\ LiveCodes' \subseteq LiveCodes
    <3>1. \A c \in Codes : /\ code'[c].st # "none" <=> code[c].st # "none"
                           /\ code'[c].st = "live" => code[c].st = "live"
      BY <2>4, <2>6
    <3> QED BY <3>1 DEF MadeCodes, LiveCodes
  <2>11. MadeCodes' = 1..Cardinality(MadeCodes')
    BY <1>0, <2>10 DEF CodesInv
  <2>12. \A c \in Codes \ MadeCodes' : hist'.answered[c] = 0
    BY <1>0, <2>2, <2>9, <2>10 DEF CodesInv
  <2>13. \A q \in Requests : /\ req'[q].pc = "verify" => req'[q].id \in MadeCodes'
                             /\ req'[q].pc = "resend" => req'[q].seen \subseteq MadeCodes'
    BY <1>0, <1>1, <2>1, <2>10 DEF CodesInv
  <2>14. ASSUME ~hist'.code, NEW c \in Codes
         PROVE  hist'.answered[c] <= code'[c].attempts /\ hist'.answered[c] <= MaxAttempts
    <3>1. ~hist.code /\ ~stale
      BY <2>7, <2>14
    <3>2. hist.answered[c] <= code[c].attempts /\ hist.answered[c] <= MaxAttempts
      BY <1>0, <3>1 DEF CodesInv
    <3>3. CASE c = k
      <4>1. code[k].attempts = req[r].attempts /\ code[k].attempts \in Nat
        BY <1>0, <2>2, <3>1 DEF stale, CodeRows
      <4>2. hist'.answered[c] = counted /\ code'[c].attempts = n
        BY <2>6, <2>9, <3>3
      <4>3. counted <= n /\ counted <= MaxAttempts
        BY <1>0, <2>3, <2>5, <3>2, <3>3, <4>1
      <4> QED BY <4>2, <4>3
    <3>4. CASE c # k
      BY <2>6, <2>9, <3>2, <3>4
    <3> QED BY <3>3, <3>4
  <2>15. CodesInv'
    BY <1>0, <2>7, <2>10, <2>11, <2>12, <2>13, <2>14 DEF CodesInv
  <2>16. Shape'
    BY <1>1, <2>1, <2>6, <2>8 DEF AccountsInv, Shape
  <2>17. TokensInv'
    BY <1>1, <2>1, <2>7, TokensLeft
  <2> QED BY <2>15, <2>16, <2>17 DEF AccountsInv
<1> QED BY <1>2, <1>3

LEMMA AccountsStep == AccountsInv /\ [Next]_vars => AccountsInv'
<1> SUFFICES ASSUME AccountsInv, [Next]_vars PROVE AccountsInv'
  OBVIOUS
<1>1. ASSUME UNCHANGED <<token, code, req, hist>> PROVE AccountsInv'
  <2>1. Shape'
    BY <1>1 DEF AccountsInv, Shape
  <2> QED BY <1>1, <2>1, TokensLeft, CodesLeft DEF AccountsInv
<1>2. CASE UNCHANGED vars
  BY <1>1, <1>2 DEF vars
<1>3. CASE Expire
  BY <1>3, ExpireStep
<1>4. ASSUME NEW k \in Routes, WindowEnds(k) PROVE AccountsInv'
  BY <1>1, <1>4 DEF WindowEnds
<1>5. ASSUME NEW r \in Requests, NEW ok \in BOOLEAN, Login(r, ok) \/ VerifyEmail(r, ok) PROVE AccountsInv'
  BY <1>5, ReadsStep
<1>6. ASSUME NEW r \in Requests, NEW t \in Tokens, Refresh(r, t) \/ Logout(r, t) PROVE AccountsInv'
  BY <1>6, ReadsStep, SessionsStep
<1>7. ASSUME NEW r \in Requests, LoggedIn(r) \/ Rotate(r) \/ RevokeAll(r) PROVE AccountsInv'
  BY <1>7, SessionsStep
<1>8. ASSUME NEW r \in Requests, Resend(r) \/ CodeCreated(r) \/ VerifyCode(r) PROVE AccountsInv'
  BY <1>8, ReadsStep, CodesStep
<1> QED BY <1>2, <1>3, <1>4, <1>5, <1>6, <1>7, <1>8 DEF Next

LEMMA AccountsInit == Init => AccountsInv
<1> SUFFICES ASSUME Init PROVE AccountsInv
  OBVIOUS
<1>1. /\ MaxToken \in Nat \ {0} /\ MaxCode \in Nat \ {0} /\ MaxAttempts \in Nat
      /\ Tokens \subseteq Nat /\ 1 \in Tokens /\ 1 \in Codes
  BY BoundsAssumption DEF Tokens, Codes
<1>2. /\ \A r \in Requests : req[r] = Idle
      /\ hist = [answered |-> [c \in Codes |-> 0], token |-> FALSE, code |-> FALSE]
  BY DEF Init
<1>3. ASSUME NEW t \in Tokens
      PROVE  /\ token[t] \in TokenRows /\ token[t].login = t
             /\ token[t].st = IF t = 1 THEN "live" ELSE "none"
  <2>1. t \in Nat
    BY <1>1
  <2>2. CASE t = 1
    <3>1. token[t] = [st |-> "live", login |-> t, old |-> FALSE]
      BY <2>2 DEF Init
    <3> QED BY <2>1, <2>2, <3>1 DEF TokenRows
  <2>3. CASE t # 1
    <3>1. token[t] = [st |-> "none", login |-> t, old |-> FALSE]
      BY <2>3 DEF Init
    <3> QED BY <2>1, <2>3, <3>1 DEF TokenRows
  <2> QED BY <2>2, <2>3
<1>4. ASSUME NEW c \in Codes
      PROVE  /\ code[c] \in CodeRows /\ code[c].attempts = 0
             /\ code[c].st = IF c = 1 THEN "live" ELSE "none"
  <2>1. CASE c = 1
    <3>1. code[c] = [st |-> "live", attempts |-> 0, old |-> FALSE]
      BY <2>1 DEF Init
    <3> QED BY <2>1, <3>1 DEF CodeRows
  <2>2. CASE c # 1
    <3>1. code[c] = [st |-> "none", attempts |-> 0, old |-> FALSE]
      BY <2>2 DEF Init
    <3> QED BY <2>2, <3>1 DEF CodeRows
  <2> QED BY <2>1, <2>2
<1>5. token \in [Tokens -> TokenRows] /\ code \in [Codes -> CodeRows]
  BY <1>3, <1>4 DEF Init
<1>6. req \in [Requests -> RequestRecords]
  BY IdleTyped DEF Init
<1>7. Shape
  BY <1>2, <1>5, <1>6 DEF Shape
<1>8. MadeTokens = {1} /\ LiveTokens = {1} /\ MadeCodes = {1} /\ LiveCodes = {1}
  <2>1. \A t \in Tokens : (token[t].st = "live" <=> t = 1) /\ (token[t].st # "none" <=> t = 1)
    BY <1>3
  <2>2. \A c \in Codes : (code[c].st = "live" <=> c = 1) /\ (code[c].st # "none" <=> c = 1)
    BY <1>4
  <2>3. MadeTokens = {1} /\ LiveTokens = {1}
    BY <1>1, <2>1 DEF MadeTokens, LiveTokens
  <2>4. MadeCodes = {1} /\ LiveCodes = {1}
    BY <1>1, <2>2 DEF MadeCodes, LiveCodes
  <2> QED BY <2>3, <2>4
<1>9. {1} = 1..1 /\ Cardinality({1}) = 1
  BY FS_Singleton
<1>10. \A r \in Requests : req[r].pc = "idle"
  BY <1>2, IdleTyped
<1>11. TokensInv
  BY <1>1, <1>8, <1>9, <1>10, <1>3 DEF TokensInv
<1>12. CodesInv
  BY <1>1, <1>2, <1>8, <1>9, <1>10, <1>4 DEF CodesInv
<1> QED BY <1>7, <1>11, <1>12 DEF AccountsInv

\* What the invariants say of the live rows.
LEMMA AccountsInvProperties == AccountsInv => OneLiveTokenPerLogin /\ OneLiveCodeAndCapped
<1> SUFFICES ASSUME AccountsInv PROVE OneLiveTokenPerLogin /\ OneLiveCodeAndCapped
  OBVIOUS
<1>1. OneLiveTokenPerLogin
  BY DEF AccountsInv, TokensInv, OneLiveTokenPerLogin
<1>2. ASSUME \A c, d \in LiveCodes : c = d PROVE Cardinality(LiveCodes) <= 1
  <2>1. CASE LiveCodes = {}
    BY <2>1, FS_EmptySet
  <2>2. ASSUME NEW c \in LiveCodes PROVE Cardinality(LiveCodes) <= 1
    <3>1. LiveCodes = {c}
      BY <1>2
    <3> QED BY <3>1, FS_Singleton
  <2> QED BY <2>1, <2>2
<1>3. OneLiveCodeAndCapped
  BY <1>2 DEF AccountsInv, CodesInv, OneLiveCodeAndCapped
<1> QED BY <1>1, <1>3

LEMMA AccountsInvHolds == Spec => []AccountsInv
<1>1. Init => AccountsInv
  BY AccountsInit
<1>2. AccountsInv /\ [Next]_vars => AccountsInv'
  BY AccountsStep
<1> QED BY <1>1, <1>2, PTL DEF Spec

(* rotate_refresh_token and issue_tokens: through any interleaving of logins,
   rotations, replays, logouts and expiries, two live refresh tokens never
   descend from one login, unless a rotation was committed for a token that had
   been revoked since it was read. *)
THEOREM LoginHasOneLiveToken == Spec => []OneLiveTokenPerLogin
<1>1. AccountsInv => OneLiveTokenPerLogin
  BY AccountsInvProperties
<1> QED BY <1>1, AccountsInvHolds, PTL

(* create_verification_code and verify_code: at most one code is live and at
   most email_verification_max_attempts guesses are compared with a code,
   unless a commit hit a row that had changed since it was read. *)
THEOREM CodeIsSingleAndCapped == Spec => []OneLiveCodeAndCapped
<1>1. AccountsInv => OneLiveCodeAndCapped
  BY AccountsInvProperties
<1> QED BY <1>1, AccountsInvHolds, PTL

-----------------------------------------------------------------------------
(* Providers                                                               *)

\* Where the call has not asked the provider for this attempt yet.
Early == {"resolve", "limit", "slot", "open", "standard"}

\* An attempt to come has left no trace, nor has one that is still being set up.
Untouched(i) == seen[i] = <<>> /\ rows[i].state = "none" /\ ~cache[i] /\ exit[i] = "open"

FreshInv ==
    /\ \A i \in Ids : i > Id => Untouched(i)
    /\ pc \in Early => Untouched(Id) /\ turn = NewTurn
    /\ pc \notin {"returned", "failed", "aborted", "promoted"} => exit[Id] = "open"

\* The continuations are counted by the round, the cue of an empty turn adds one.
RoundInv == 1 <= turn.round /\ turn.round <= MaxPauses + (IF turn.cued THEN 2 ELSE 1)

\* The chunks of a turn: those of earlier rounds come first, then those of this
\* round, all of them from its answer in progress.
InRounds(t) ==
    /\ Len(t.parts) = t.shown + Len(t.got)
    /\ \A j \in 1..t.shown : t.parts[j][1] < t.round
    /\ \A j \in 1..Len(t.got) : t.parts[t.shown + j] = t.got[j] /\ t.got[j] = <<t.round, j>>

\* What a turn is going to store: all it has shown in its answers, or only the
\* answer in progress when those before it were blank.
Kept(t) == IF t.cued THEN t.blocks = <<>> ELSE t.parts = t.blocks \o t.got

\* A text that may be stored of the attempt: an excerpt of what it has shown, in
\* order; all of it, where nothing cuts it; and where it may hold more than that.
Told(x, more) ==
    /\ InOrder(x)
    /\ \A j \in 1..Len(x) : \E k \in 1..Len(seen[Id]) : x[j] = seen[Id][k]
    /\ kind # "cli" /\ ~turn.cued => x = seen[Id]
    /\ more => kind = "cli" \/ (kind = "responses" /\ x # <<>>)

\* What is shown is in order and is what the turn holds: in rounds it has been
\* through and in the answer in progress.
ShownInv ==
    /\ \A i \in Ids : InOrder(seen[i])
    /\ pc \in {"stream", "killed"} =>
          InRounds(turn) /\ Kept(turn) /\ seen[Id] = turn.parts /\ ~turn.extra
    /\ pc = "save" => Told(turn.blocks, turn.extra)

\* A row written before the turn is over is a fragment, kept of a drop after which
\* the round is sent again: it ends where a round began.
FragmentInv ==
    pc \in {"stream", "killed", "save"} /\ rows[Id].state # "none" =>
        /\ kind = "anthropic" /\ rows[Id].text # <<>>
        /\ Fragment(Id) \/ (rows[Id].text = seen[Id]
                            /\ (pc = "stream" => turn.shown = Len(turn.parts)))

\* Only the end of the call stores a message for good.
FinalInv ==
    /\ pc \notin {"completed", "clear", "returned", "failed", "promoted"} =>
          \A i \in Ids : rows[i].state # "final"
    /\ pc \in {"completed", "clear", "returned"} =>
          /\ rows[Id].state = "final" /\ Told(rows[Id].text, rows[Id].extra)
          /\ \A i \in Ids \ {Id} : rows[i].state # "final"

CallInv == FreshInv /\ RoundInv /\ ShownInv /\ FragmentInv /\ FinalInv /\ ClosedTurnIsSettled
-----------------------------------------------------------------------------
(* The kinds of step, by what they do to the turn and to what is stored of it. *)

\* The call moves on, waits, or something outside of it changes.
MovesOn ==
    /\ UNCHANGED <<attempt, turn, seen, rows, cache, exit, lost>>
    /\ \/ pc' = pc
       \/ pc \in Early /\ pc' \in Early \cup {"stream"}
       \/ pc = "stream" /\ pc' = "killed"
       \/ pc = "completed" /\ pc' = "clear"

\* The Responses API announces the turn up front.
Announces ==
    /\ pc = "open" /\ pc' = "stream"
    /\ turn' = [turn EXCEPT !.started = TRUE]
    /\ cache' = [cache EXCEPT ![Id] = TRUE]
    /\ UNCHANGED <<attempt, seen, rows, exit, lost>>

\* A chunk of output, with or without text.
Here == NextChunk(turn)
Shows(c) ==
    /\ ToCome /\ pc' = pc
    /\ \E p \in BOOLEAN :
          turn' = [Published(turn, c) EXCEPT !.started = TRUE, !.chunk = @ + 1, !.proposed = p]
    /\ seen' = [seen EXCEPT ![Id] = IF c = "text" THEN Append(@, Here) ELSE @]
    /\ cache' = [cache EXCEPT ![Id] = TRUE]
    /\ UNCHANGED <<attempt, rows, exit, lost>>

\* The attempt ends, and another one follows or not.
EndsAs(why) ==
    /\ exit' = [exit EXCEPT ![Id] = why]
    /\ seen' = seen /\ turn' = NewTurn
    /\ \/ pc' \in {"failed", "aborted"} /\ UNCHANGED attempt
       \/ pc' = "resolve" /\ attempt < MaxRetries /\ attempt' = attempt + 1

EndsKept ==
    /\ pc \in {"stream", "killed"}
    /\ \E why \in {"kept", "aborted"} : EndsAs(why)
    /\ SavePartialBlocks

EndsEarly == pc \in Early /\ EndsAs("kept") /\ UNCHANGED <<rows, cache, lost>>

EndsUnkept ==
    /\ pc \in {"stream", "save", "completed"} /\ (pc # "stream" => pc' = "failed")
    /\ EndsAs("unkept") /\ UNCHANGED <<rows, cache, lost>>

\* A round is sent again.
SendsAgain ==
    /\ kind = "anthropic" /\ pc = "stream" /\ turn.tries < StreamRetries
    /\ Len(turn.parts) = turn.shown
    /\ RoundRestarts
    /\ \/ UNCHANGED <<rows, cache, lost>>
       \/ turn.parts # <<>> /\ SavePartialBlocks
    /\ seen' = seen

\* A round is over and another one follows, which the cue of an empty one is.
Answered == [turn EXCEPT !.blocks = @ \o turn.got]
GoesOn ==
    /\ pc = "stream" /\ ~turn.cued
    /\ \/ turn' = NextRound(Answered) /\ turn.round < MaxPauses + 1
       \/ turn' = [NextRound(Answered) EXCEPT !.cued = TRUE, !.blocks = <<>>]
    /\ UNCHANGED <<pc, attempt, seen, rows, cache, exit, lost>>

\* The turn is over and its message is to be stored.
Answers ==
    /\ pc = "stream" /\ pc' = "save"
    /\ \/ \E c \in BOOLEAN, more \in {turn.extra, kind = "responses" /\ turn.got # <<>>} :
             turn' = [Answered EXCEPT !.calls = c, !.extra = more]
       \/ kind = "cli" /\ turn' \in CLIBlocks(turn)
    /\ UNCHANGED <<attempt, seen, rows, cache, exit, lost>>

Stores ==
    /\ pc = "save" /\ pc' = "completed" /\ rows[Id].state = "none"
    /\ rows' = [rows EXCEPT ![Id] = [state |-> "final", text |-> turn.blocks,
                                     calls |-> turn.calls, extra |-> turn.extra]]
    /\ UNCHANGED <<attempt, turn, seen, cache, exit, lost>>

StepKinds ==
    \/ MovesOn \/ Announces \/ (\E c \in {"text", "thinking", "call"} : Shows(c))
    \/ EndsKept \/ EndsEarly \/ EndsUnkept \/ SendsAgain \/ GoesOn \/ Answers \/ Stores
    \/ ClearKeys \/ FinalizePartialMessages

\* The router's answers to an error end the attempt.
LEMMA RouterEnds ==
    /\ \A f \in Failures : RouterCatches(f) /\ seen' = seen => EndsAs("kept")
    /\ \A why : Raise(why) /\ seen' = seen => EndsAs(why) /\ pc' = "failed"
    /\ Aborted /\ seen' = seen => EndsAs("aborted")
BY DEF RouterCatches, Raise, Aborted, EndsAs

\* A turn that ends with its own blocks is one of Answers.
LEMMA AnsweredTyped ==
    ASSUME turn \in Turns
    PROVE  /\ Answered = [Answered EXCEPT !.calls = turn.calls, !.extra = turn.extra]
           /\ turn.calls \in BOOLEAN
           /\ \A c, more : [turn EXCEPT !.blocks = @ \o turn.got, !.calls = c, !.extra = more]
                            = [Answered EXCEPT !.calls = c, !.extra = more]
           /\ Answered.round = turn.round /\ Answered.cued = turn.cued
BY DEF Answered, Turns

\* Every step of the four providers and of the router is of one kind, and none
\* changes which provider it is.
LEMMA EveryStepHasAKind ==
    ASSUME TypeOK, CallInv, CallNext
    PROVE  StepKinds /\ kind' = kind
<1> USE DEF StepKinds
<1>1. CASE ResolveChatProvider
    <2>1. CASE active
        BY <1>1, <2>1 DEF ResolveChatProvider, MovesOn, Early
    <2>2. CASE ~active
        BY <1>1, <2>2, RouterEnds DEF ResolveChatProvider, EndsEarly, Early
    <2> QED BY <2>1, <2>2
<1>2. CASE EnforceRateLimit
    BY <1>2 DEF EnforceRateLimit, MovesOn, Early
<1>3. CASE Deactivate \/ OthersLeave \/ AbortTurn \/ Spawn \/ CLIWatcherKills
    BY <1>3 DEF Deactivate, OthersLeave, AbortTurn, Spawn, CLIWatcherKills, MovesOn, Early
<1>4. CASE ChatOpens
    BY <1>4, RouterEnds DEF ChatOpens, OpenChatStream, MovesOn, EndsEarly, Early
<1>5. CASE ResponsesOpens
    BY <1>5, RouterEnds DEF ResponsesOpens, EnsureStarted, Announces, EndsEarly, Early
<1>6. CASE ChatChunk \/ ResponsesChunk \/ AnthropicEvent
    <2>1. PICK c \in {"text", "thinking", "call"} : Output(c)
        BY <1>6 DEF ChatChunk, ResponsesChunk, AnthropicEvent
    <2>2. ToCome /\ kind' = kind /\ UNCHANGED <<pc, attempt, rows, exit, lost>>
        BY <1>6 DEF ChatChunk, ResponsesChunk, AnthropicEvent
    <2>3. [Published(turn, c) EXCEPT !.started = TRUE, !.chunk = @ + 1]
          = [Published(turn, c) EXCEPT !.started = TRUE, !.chunk = @ + 1,
                                       !.proposed = turn.proposed]
        BY DEF TypeOK, Turns, Published
    <2>4. turn.proposed \in BOOLEAN
        BY DEF TypeOK, Turns
    <2> QED BY <2>1, <2>2, <2>3, <2>4 DEF Output, EnsureStarted, Shows, Here
<1>7. CASE CLILine
    <2>1. PICK c \in {"text", "thinking", "call"} :
              /\ EnsureStarted
              /\ turn' = [Published(turn, c) EXCEPT !.started = TRUE, !.chunk = @ + 1,
                                        !.proposed = @ \/ (option /\ c = "call")]
              /\ seen' = [seen EXCEPT ![Id] = IF c = "text" THEN Append(@, NextChunk(turn)) ELSE @]
        BY <1>7 DEF CLILine
    <2>2. ToCome /\ kind' = kind /\ UNCHANGED <<pc, attempt, rows, exit, lost>>
        BY <1>7 DEF CLILine
    <2>3. (Published(turn, c).proposed \/ (option /\ c = "call")) \in BOOLEAN
        BY DEF TypeOK, Turns, Published
    <2> QED BY <2>1, <2>2, <2>3 DEF EnsureStarted, Shows, Here
<1>8. CASE ChatSeesAbort \/ ResponsesSeesAbort \/ AnthropicSeesAbort \/ CLIAborted
    BY <1>8, RouterEnds DEF ChatSeesAbort, ResponsesSeesAbort, AnthropicSeesAbort, CLIAborted,
           SavePartial, SavePartialBlocks, EndsKept
<1>9. CASE ChatFails \/ ResponsesFails \/ CLITimesOut
    BY <1>9, RouterEnds DEF ChatFails, ResponsesFails, CLITimesOut, SavePartial,
           SavePartialBlocks, EndsKept
<1>10. CASE ChatEnds \/ ResponsesEnds
    <2>1. pc = "stream" /\ pc' = "save" /\ UNCHANGED <<kind, attempt, seen, rows, cache, exit, lost>>
        BY <1>10 DEF ChatEnds, ResponsesEnds
    <2>2. turn \in Turns
        BY DEF TypeOK
    <2>3. CASE ChatEnds
        <3>1. turn' = Answered
            BY <2>3 DEF ChatEnds, Answered
        <3> QED BY <2>1, <2>2, <3>1, AnsweredTyped DEF Answers
    <2>4. CASE ResponsesEnds
        <3>1. kind = "responses" /\ ~turn.extra
            BY <2>1, <2>4 DEF ResponsesEnds, CallInv, ShownInv
        <3>2. PICK c \in BOOLEAN, cited \in {FALSE, turn.got # <<>>} :
                turn' = ResponsesBlocks(turn, c, cited)
            BY <2>4 DEF ResponsesEnds
        <3>3. cited \in {turn.extra, kind = "responses" /\ turn.got # <<>>}
            <4>1. turn.extra = FALSE
                BY <2>2, <3>1 DEF Turns
            <4> QED BY <3>1, <3>2, <4>1
        <3>4. turn' = [Answered EXCEPT !.calls = c, !.extra = cited]
            BY <2>2, <3>2, AnsweredTyped DEF ResponsesBlocks
        <3> QED BY <2>1, <3>3, <3>4 DEF Answers
    <2> QED BY <1>10, <2>3, <2>4
<1>11. CASE AnthropicFails
    <2>1. PICK f \in Failures :
              /\ IF KeepsNoPartial(f) THEN UNCHANGED <<rows, cache, lost>> ELSE SavePartialBlocks
              /\ IF SentAgain(f) THEN RoundRestarts ELSE RouterCatches(f)
        BY <1>11 DEF AnthropicFails
    <2>2. kind = "anthropic" /\ pc = "stream" /\ kind' = kind /\ seen' = seen
        BY <1>11 DEF AnthropicFails
    <2>3. /\ turn.parts \in Seq(Chunks) /\ turn.shown \in Nat /\ Len(turn.got) \in Nat
          /\ Len(turn.parts) = turn.shown + Len(turn.got)
        BY <2>2 DEF TypeOK, Turns, CallInv, ShownInv, InRounds
    <2>4. KeepsNoPartial(f) => SentAgain(f)
        BY <2>3 DEF KeepsNoPartial, SentAgain
    <2>5. CASE SentAgain(f)
        BY <2>1, <2>2, <2>5 DEF SendsAgain, SentAgain, KeepsNoPartial
    <2>6. CASE ~SentAgain(f)
        BY <2>1, <2>2, <2>4, <2>6, RouterEnds DEF EndsKept
    <2> QED BY <2>5, <2>6
<1>12. CASE AnthropicRoundEnds
    <2>1. pc = "stream" /\ kind' = kind /\ seen' = seen
        BY <1>12 DEF AnthropicRoundEnds
    <2>2. PICK stop \in {"end_turn", "pause_turn", "refusal", "max_tokens"}, blank \in BOOLEAN :
             LET t == Answered
                 goesOn == stop = "pause_turn" /\ ~t.cued /\ t.round < MaxPauses + 1
                 empty == stop = "end_turn" /\ ~t.calls /\ (blank \/ t.blocks = <<>>)
             IN  CASE goesOn ->
                        /\ turn' = NextRound(t) /\ UNCHANGED <<pc, attempt, exit, rows, cache, lost>>
                   [] ~goesOn /\ empty /\ ~t.cued ->
                        /\ turn' = [NextRound(t) EXCEPT !.cued = TRUE, !.blocks = <<>>]
                        /\ UNCHANGED <<pc, attempt, exit, rows, cache, lost>>
                   [] ~goesOn /\ empty /\ t.cued ->
                        /\ Raise("unkept") /\ UNCHANGED <<rows, cache, lost>>
                   [] OTHER -> AnthropicStops(stop, t)
        BY <1>12 DEF AnthropicRoundEnds, Answered
    <2>3. Answered.round = turn.round /\ Answered.cued = turn.cued
        BY AnsweredTyped DEF TypeOK
    <2> DEFINE goesOn == stop = "pause_turn" /\ ~Answered.cued /\ Answered.round < MaxPauses + 1
               empty == stop = "end_turn" /\ ~Answered.calls /\ (blank \/ Answered.blocks = <<>>)
    <2>4. CASE goesOn
        BY <2>1, <2>2, <2>3, <2>4 DEF GoesOn
    <2>5. CASE ~goesOn /\ empty /\ ~Answered.cued
        BY <2>1, <2>2, <2>3, <2>5 DEF GoesOn
    <2>6. CASE ~goesOn /\ empty /\ Answered.cued
        BY <2>1, <2>2, <2>6, RouterEnds DEF EndsUnkept
    <2>7. CASE ~goesOn /\ ~empty
        <3>1. AnthropicStops(stop, Answered)
            BY <2>2, <2>7
        <3>2. CASE SavePartialBlocks /\ Raise("kept")
            BY <2>1, <3>2, RouterEnds DEF EndsKept
        <3>3. CASE turn' = Answered /\ pc' = "save" /\ UNCHANGED <<attempt, exit, rows, cache, lost>>
            BY <2>1, <3>3, AnsweredTyped DEF TypeOK, Answers
        <3> QED BY <3>1, <3>2, <3>3 DEF AnthropicStops
    <2> QED BY <2>4, <2>5, <2>6, <2>7
<1>13. CASE CLIEnds
    <2>1. pc = "stream" /\ kind = "cli" /\ kind' = kind /\ UNCHANGED <<seen, rows, cache, lost>>
        BY <1>13 DEF CLIEnds
    <2>2. \/ Raise("unkept")
          \/ /\ attempt < MaxRetries
             /\ attempt' = attempt + 1 /\ turn' = NewTurn /\ pc' = "resolve"
             /\ exit' = [exit EXCEPT ![Id] = "unkept"]
          \/ turn' \in CLIBlocks(turn) /\ pc' = "save" /\ UNCHANGED <<attempt, exit>>
        BY <1>13 DEF CLIEnds
    <2>3. CASE Raise("unkept")
        BY <2>1, <2>3, RouterEnds DEF EndsUnkept
    <2>4. CASE /\ attempt < MaxRetries
               /\ attempt' = attempt + 1 /\ turn' = NewTurn /\ pc' = "resolve"
               /\ exit' = [exit EXCEPT ![Id] = "unkept"]
        BY <2>1, <2>4 DEF EndsUnkept, EndsAs
    <2>5. CASE turn' \in CLIBlocks(turn) /\ pc' = "save" /\ UNCHANGED <<attempt, exit>>
        BY <2>1, <2>5 DEF Answers
    <2> QED BY <2>2, <2>3, <2>4, <2>5
<1>14. CASE SaveMessage
    BY <1>14, RouterEnds DEF SaveMessage, Stores, EndsUnkept
<1>15. CASE EmitCompleted
    BY <1>15, RouterEnds DEF EmitCompleted, MovesOn, EndsUnkept
<1>16. CASE ClearKeys \/ FinalizePartialMessages
    BY <1>16 DEF ClearKeys, FinalizePartialMessages
<1> QED BY <1>1, <1>2, <1>3, <1>4, <1>5, <1>6, <1>7, <1>8, <1>9, <1>10, <1>11, <1>12, <1>13,
           <1>14, <1>15, <1>16 DEF CallNext, Steps, Generic, Anthropic, CLI

-----------------------------------------------------------------------------
(* Types *)

\* What is left of a text is a text, in order, and of its chunks.
LEMMA ExcerptsTyped ==
    ASSUME NEW s \in Seq(Chunks)
    PROVE  /\ Excerpts(s) \subseteq Seq(Chunks)
           /\ \A x \in Excerpts(s) :
                 InOrder(x) /\ \A j \in 1..Len(x) : \E k \in 1..Len(s) : x[j] = s[k]
<1> SUFFICES ASSUME NEW x \in Excerpts(s)
             PROVE  /\ x \in Seq(Chunks) /\ InOrder(x)
                    /\ \A j \in 1..Len(x) : \E k \in 1..Len(s) : x[j] = s[k]
    OBVIOUS
<1> DEFINE R == {s[j] : j \in 1..Len(s)}
<1>1. PICK n \in 0..Len(s) : x \in [1..n -> R]
    BY DEF Excerpts
<1>2. InOrder(x)
    BY DEF Excerpts
<1>3. R \subseteq Chunks
    OBVIOUS
<1>4. n \in Nat
    OBVIOUS
<1>5. x \in Seq(R)
    BY <1>1, <1>4, SeqDef, SMTT(30)
<1>6. x \in Seq(Chunks) /\ Len(x) = n
    <2>1. x \in [1..n -> Chunks]
        BY <1>1, <1>3
    <2> HIDE DEF R
    <2> QED BY <1>1, <1>4, <1>5, <2>1, SeqDef
<1>7. ASSUME NEW j \in 1..Len(x) PROVE \E k \in 1..Len(s) : x[j] = s[k]
    <2>1. x[j] \in R
        BY <1>1, <1>6
    <2> QED BY <2>1
<1> QED BY <1>2, <1>6, <1>7

\* The two forms of what the CLI stores.
LEMMA CLIBlockForms ==
    ASSUME NEW t, NEW u \in CLIBlocks(t)
    PROVE  \/ u = [t EXCEPT !.calls = FALSE, !.extra = TRUE]
           \/ \E x \in Excerpts(t.got), c \in {t.calls, TRUE} :
                 u = [t EXCEPT !.blocks = x, !.calls = c]
<1>1. CASE u \in {[t EXCEPT !.calls = FALSE, !.extra = TRUE]}
    BY <1>1
<1>2. CASE u \in {[t EXCEPT !.blocks = p[1], !.calls = p[2]] :
                        p \in Excerpts(t.got) \X {t.calls, TRUE}}
    <2>1. PICK p \in Excerpts(t.got) \X {t.calls, TRUE} : u = [t EXCEPT !.blocks = p[1], !.calls = p[2]]
        BY <1>2
    <2>2. p[1] \in Excerpts(t.got) /\ p[2] \in {t.calls, TRUE}
        BY <2>1
    <2> QED BY <2>1, <2>2
<1> QED BY <1>1, <1>2 DEF CLIBlocks

\* The records that are written are typed.
LEMMA Typed ==
    /\ NewTurn \in Turns
    /\ TypeOK => Id \in Ids /\ Id \in Nat /\ (attempt < MaxRetries => Id + 1 \in Ids)
    /\ \A t \in Turns : /\ NextRound(t) \in Turns
                        /\ [NextRound(t) EXCEPT !.cued = TRUE, !.blocks = <<>>] \in Turns
    /\ turn \in Turns => Answered \in Turns
    /\ \A t \in Turns : CLIBlocks(t) \subseteq Turns
<1> USE ProvidersAssumption
<1>1. NewTurn \in Turns
    BY DEF NewTurn, Turns
<1>2. TypeOK => Id \in Ids /\ Id \in Nat /\ (attempt < MaxRetries => Id + 1 \in Ids)
    BY DEF TypeOK, Id, Ids
<1>3. ASSUME NEW t \in Turns
      PROVE  /\ NextRound(t) \in Turns
             /\ [NextRound(t) EXCEPT !.cued = TRUE, !.blocks = <<>>] \in Turns
    <2>1. Len(t.parts) \in Nat /\ t.round + 1 \in Nat /\ t.thinking \in BOOLEAN
        BY DEF Turns
    <2>2. <<>> \in Seq(Chunks) /\ 0 \in 0..StreamRetries
        OBVIOUS
    <2>3. NextRound(t) \in Turns
        BY <2>1, <2>2 DEF NextRound, Turns
    <2> QED BY <2>2, <2>3 DEF Turns
<1>4. ASSUME turn \in Turns PROVE Answered \in Turns
    <2>1. turn.blocks \o turn.got \in Seq(Chunks)
        BY <1>4 DEF Turns
    <2> QED BY <1>4, <2>1 DEF Answered, Turns
<1>5. ASSUME NEW t \in Turns, NEW u \in CLIBlocks(t) PROVE u \in Turns
    <2>1. CASE u = [t EXCEPT !.calls = FALSE, !.extra = TRUE]
        BY <2>1 DEF Turns
    <2>2. CASE \E x \in Excerpts(t.got), c \in {t.calls, TRUE} :
                 u = [t EXCEPT !.blocks = x, !.calls = c]
        <3>1. t.got \in Seq(Chunks) /\ t.calls \in BOOLEAN
            BY DEF Turns
        <3>2. Excerpts(t.got) \subseteq Seq(Chunks)
            BY <3>1, ExcerptsTyped
        <3>3. PICK x \in Excerpts(t.got), c \in {t.calls, TRUE} :
                 u = [t EXCEPT !.blocks = x, !.calls = c]
            BY <2>2
        <3>4. x \in Seq(Chunks) /\ c \in BOOLEAN
            BY <3>1, <3>2, <3>3
        <3> QED BY <3>3, <3>4 DEF Turns
    <2> QED BY <2>1, <2>2, CLIBlockForms
<1> QED BY <1>1, <1>2, <1>3, <1>4, <1>5

\* What a chunk of output does to the turn.
LEMMA ShowsTyped ==
    ASSUME TypeOK, RoundInv, NEW c \in {"text", "thinking", "call"}, Shows(c)
    PROVE  /\ turn' \in Turns /\ Here \in Chunks /\ turn'.extra = turn.extra
           /\ turn'.parts = (IF c = "text" THEN Append(turn.parts, Here) ELSE turn.parts)
           /\ turn'.got = (IF c = "text" THEN Append(turn.got, Here) ELSE turn.got)
           /\ turn'.round = turn.round
           /\ turn'.shown = turn.shown /\ turn'.blocks = turn.blocks /\ turn'.cued = turn.cued
<1>1. turn \in Turns
    BY DEF TypeOK
<1>2. Here \in Chunks
    <2>1. turn.got \in Seq(Chunks) /\ turn.round \in Nat
        BY <1>1 DEF Turns
    <2>2. turn.round \in 1..(MaxPauses + 2)
        BY <2>1, ProvidersAssumption DEF RoundInv
    <2>3. Len(turn.got) + 1 \in Nat \ {0}
        BY <2>1
    <2> QED BY <2>2, <2>3 DEF Here, NextChunk, Chunks
<1>3. /\ Published(turn, c) \in Turns
      /\ Published(turn, c).parts = (IF c = "text" THEN Append(turn.parts, Here) ELSE turn.parts)
      /\ Published(turn, c).got = (IF c = "text" THEN Append(turn.got, Here) ELSE turn.got)
      /\ Published(turn, c).chunk = turn.chunk /\ Published(turn, c).round = turn.round
      /\ Published(turn, c).shown = turn.shown /\ Published(turn, c).blocks = turn.blocks
      /\ Published(turn, c).cued = turn.cued /\ Published(turn, c).extra = turn.extra
    <2>1. CASE c = "text"
        <3>1. Append(turn.parts, Here) \in Seq(Chunks) /\ Append(turn.got, Here) \in Seq(Chunks)
            BY <1>1, <1>2 DEF Turns
        <3>2. Published(turn, c) = [turn EXCEPT !.parts = Append(@, Here), !.got = Append(@, Here)]
            BY <2>1 DEF Published, Here
        <3> QED BY <1>1, <2>1, <3>1, <3>2 DEF Turns
    <2>2. CASE c = "thinking"
        <3>1. Published(turn, c) = [turn EXCEPT !.thinking = TRUE]
            BY <2>2 DEF Published
        <3> QED BY <1>1, <2>2, <3>1 DEF Turns
    <2>3. CASE c = "call"
        <3>1. Published(turn, c) = [turn EXCEPT !.calls = TRUE]
            BY <2>3 DEF Published
        <3> QED BY <1>1, <2>3, <3>1 DEF Turns
    <2> QED BY <2>1, <2>2, <2>3
<1> DEFINE q == Published(turn, c)
<1>4. PICK p \in BOOLEAN :
        turn' = [q EXCEPT !.started = TRUE, !.chunk = @ + 1, !.proposed = p]
    BY DEF Shows
<1>5. turn.chunk + 1 \in 0..MaxChunks
    BY <1>1, ProvidersAssumption DEF Turns, Shows, ToCome
<1>6. q \in Turns /\ q.chunk = turn.chunk
    BY <1>3
<1> HIDE DEF q
<1>7. /\ turn' \in Turns /\ turn'.extra = q.extra
      /\ turn'.parts = q.parts /\ turn'.got = q.got /\ turn'.round = q.round
      /\ turn'.shown = q.shown /\ turn'.blocks = q.blocks /\ turn'.cued = q.cued
    BY <1>4, <1>5, <1>6 DEF Turns
<1> QED BY <1>2, <1>3, <1>7 DEF q

\* Every step keeps the types; the round stays below the continuations.
LEMMA CallTypeStep == TypeOK /\ CallInv /\ [CallNext]_callVars => TypeOK'
<1> SUFFICES ASSUME TypeOK, CallInv, [CallNext]_callVars PROVE TypeOK'
    OBVIOUS
<1> DEFINE Row == [state : {"none", "partial", "final"}, text : Seq(Chunks),
                   calls : BOOLEAN, extra : BOOLEAN]
<1>0. Id \in Ids /\ NewTurn \in Turns /\ RoundInv /\ turn \in Turns
    BY Typed DEF CallInv, TypeOK
<1>1. CASE UNCHANGED callVars
    BY <1>1 DEF callVars, TypeOK
<1>2. CASE CallNext
    <2>1. StepKinds
        BY <1>2, EveryStepHasAKind
    <2>2. /\ kind' \in Kinds /\ option' \in BOOLEAN /\ active' \in BOOLEAN /\ busy' \in BOOLEAN
          /\ abortKey' \in BOOLEAN
        <3>1. option' = option
            BY <1>2 DEF CallNext, Steps, Generic, Anthropic, CLI, ResolveChatProvider,
               EnforceRateLimit, Deactivate, OthersLeave, AbortTurn, ChatOpens, ChatChunk,
               ChatSeesAbort, ChatFails, ChatEnds, ResponsesOpens, ResponsesChunk,
               ResponsesSeesAbort, ResponsesFails, ResponsesEnds, AnthropicEvent,
               AnthropicSeesAbort, AnthropicFails, AnthropicRoundEnds, Spawn, CLILine,
               CLIWatcherKills, CLIAborted, CLITimesOut, CLIEnds, SaveMessage, EmitCompleted,
               ClearKeys, FinalizePartialMessages
        <3>2. active' \in {active, FALSE} /\ busy' \in {busy, FALSE}
            BY <1>2 DEF CallNext, Steps, Generic, Anthropic, CLI, ResolveChatProvider,
               EnforceRateLimit, Deactivate, OthersLeave, AbortTurn, ChatOpens, ChatChunk,
               ChatSeesAbort, ChatFails, ChatEnds, ResponsesOpens, ResponsesChunk,
               ResponsesSeesAbort, ResponsesFails, ResponsesEnds, AnthropicEvent,
               AnthropicSeesAbort, AnthropicFails, AnthropicRoundEnds, Spawn, CLILine,
               CLIWatcherKills, CLIAborted, CLITimesOut, CLIEnds, SaveMessage, EmitCompleted,
               ClearKeys, FinalizePartialMessages
        <3>3. abortKey' \in {abortKey, TRUE, FALSE}
            BY <1>2 DEF CallNext, Steps, Generic, Anthropic, CLI, ResolveChatProvider,
               EnforceRateLimit, Deactivate, OthersLeave, AbortTurn, ChatOpens, ChatChunk,
               ChatSeesAbort, ChatFails, ChatEnds, ResponsesOpens, ResponsesChunk,
               ResponsesSeesAbort, ResponsesFails, ResponsesEnds, AnthropicEvent,
               AnthropicSeesAbort, AnthropicFails, AnthropicRoundEnds, Spawn, CLILine,
               CLIWatcherKills, CLIAborted, CLITimesOut, CLIEnds, SaveMessage, EmitCompleted,
               ClearKeys, FinalizePartialMessages
        <3>4. kind' = kind
            BY <1>2, EveryStepHasAKind
        <3> QED BY <3>1, <3>2, <3>3, <3>4, Zenon DEF TypeOK
    <2>3. pc' \in {"resolve", "limit", "slot", "open", "standard", "stream", "killed", "save",
               "completed", "clear", "returned", "failed", "aborted", "promoted"}
        BY <2>1 DEF TypeOK, StepKinds, MovesOn, Announces, Shows, EndsKept, EndsEarly, EndsUnkept,
           EndsAs, SendsAgain, RoundRestarts, GoesOn, Answers, Stores, ClearKeys,
           FinalizePartialMessages, Early
    <2>4. attempt' \in 0..MaxRetries
        <3>1. attempt' = attempt \/ (attempt < MaxRetries /\ attempt' = attempt + 1)
            BY <2>1 DEF StepKinds, MovesOn, Announces, Shows, EndsKept, EndsEarly, EndsUnkept,
               EndsAs, SendsAgain, RoundRestarts, GoesOn, Answers, Stores, ClearKeys,
               FinalizePartialMessages
        <3> QED BY <3>1, ProvidersAssumption DEF TypeOK
    <2>5. turn' \in Turns
        <3>1. CASE turn' = turn \/ turn' = NewTurn
            BY <1>0, <3>1
        <3>2. CASE turn' = [turn EXCEPT !.started = TRUE]
            BY <1>0, <3>2 DEF Turns
        <3>3. CASE \E c \in {"text", "thinking", "call"} : Shows(c)
            BY <1>0, <3>3, ShowsTyped
        <3>4. CASE SendsAgain
            <4>0. /\ turn.tries \in 0..StreamRetries /\ turn.thought \in BOOLEAN
                  /\ turn.tries < StreamRetries
                <5>1. turn.tries \in 0..StreamRetries /\ turn.thought \in BOOLEAN
                    BY <1>0 DEF Turns
                <5> QED BY <3>4, <5>1 DEF SendsAgain
            <4>1. turn.tries + 1 \in 0..StreamRetries
                BY <4>0, ProvidersAssumption
            <4>2. <<>> \in Seq(Chunks)
                OBVIOUS
            <4> QED BY <1>0, <3>4, <4>1, <4>2 DEF SendsAgain, RoundRestarts, Turns
        <3>5. CASE GoesOn \/ Answers
            <4>1. Answered \in Turns
                BY <1>0, Typed
            <4>2. ASSUME NEW c \in BOOLEAN, NEW more \in BOOLEAN
                  PROVE  [Answered EXCEPT !.calls = c, !.extra = more] \in Turns
                BY <4>1 DEF Turns
            <4>3. turn.extra \in BOOLEAN
                BY <1>0 DEF Turns
            <4>4. CASE GoesOn
                BY <4>1, <4>4, Typed DEF GoesOn
            <4>5. CASE Answers
                <5>1. CASE turn' \in CLIBlocks(turn)
                    BY <1>0, <5>1, Typed
                <5>2. CASE \E c \in BOOLEAN, more \in {turn.extra, kind = "responses" /\ turn.got # <<>>} :
                             turn' = [Answered EXCEPT !.calls = c, !.extra = more]
                    BY <4>2, <4>3, <5>2
                <5> QED BY <4>5, <5>1, <5>2 DEF Answers
            <4> QED BY <3>5, <4>4, <4>5
        <3> QED BY <2>1, <3>1, <3>2, <3>3, <3>4, <3>5
                DEF StepKinds, MovesOn, Announces, EndsKept, EndsEarly, EndsUnkept, EndsAs, Stores,
                    ClearKeys, FinalizePartialMessages
    <2>10. lost' \subseteq Ids
        <3>1. lost' = lost \/ lost' = lost \cup {Id}
            BY <2>1 DEF StepKinds, MovesOn, Announces, Shows, EndsKept, EndsEarly, EndsUnkept,
                    SendsAgain, SavePartialBlocks, RowIsTried, GoesOn, Answers, ClearKeys, Stores,
                    FinalizePartialMessages
        <3> QED BY <1>0, <3>1 DEF TypeOK
    <2>6. seen' \in [Ids -> Seq(Chunks)]
        <3>1. CASE seen' = seen
            BY <3>1 DEF TypeOK
        <3>2. ASSUME NEW c \in {"text", "thinking", "call"}, Shows(c) PROVE seen' \in [Ids -> Seq(Chunks)]
            <4>1. Here \in Chunks
                BY <1>0, <3>2, ShowsTyped
            <4> QED BY <1>0, <3>2, <4>1 DEF Shows, TypeOK
        <3> QED BY <2>1, <3>1, <3>2
                DEF StepKinds, MovesOn, Announces, EndsKept, EndsEarly, EndsUnkept, EndsAs, SendsAgain,
                    GoesOn, Answers, Stores, ClearKeys, FinalizePartialMessages
    <2>7. rows' \in [Ids -> Row]
        <3>1. CASE rows' = rows
            BY <3>1 DEF TypeOK
        <3>2. PartialRow \in [Ids -> Row]
            <4>1. (kind = "chat" /\ turn.calls) \in BOOLEAN /\ turn.parts \in Seq(Chunks)
                BY <1>0 DEF Turns
            <4>2. [state |-> "partial", text |-> turn.parts,
                   calls |-> kind = "chat" /\ turn.calls, extra |-> FALSE] \in Row
                BY <4>1
            <4> QED BY <4>2 DEF PartialRow, TypeOK
        <3>3. CASE Stores
            <4>1. [state |-> "final", text |-> turn.blocks, calls |-> turn.calls,
                   extra |-> turn.extra] \in Row
                BY <1>0 DEF Turns
            <4> QED BY <3>3, <4>1 DEF Stores, TypeOK
        <3>4. CASE FinalizePartialMessages
            <4>1. \A i \in Ids : rows[i] \in Row /\ [rows[i] EXCEPT !.state = "final"] \in Row
                BY DEF TypeOK
            <4> QED BY <3>4, <4>1 DEF FinalizePartialMessages
        <3> QED BY <2>1, <3>1, <3>2, <3>3, <3>4
                DEF StepKinds, MovesOn, Announces, Shows, EndsKept, EndsEarly, EndsUnkept, EndsAs,
                    SendsAgain, SavePartialBlocks, RowIsTried, GoesOn, Answers, ClearKeys
    <2>8. cache' \in [Ids -> BOOLEAN]
        <3>1. cache' = cache \/ cache' = [cache EXCEPT ![Id] = TRUE]
              \/ cache' = [cache EXCEPT ![Id] = FALSE]
            BY <2>1 DEF StepKinds, MovesOn, Announces, Shows, EndsKept, EndsEarly, EndsUnkept, EndsAs,
                    SendsAgain, SavePartialBlocks, GoesOn, Answers, ClearKeys, Stores,
                    FinalizePartialMessages
        <3> QED BY <3>1 DEF TypeOK
    <2>9. exit' \in [Ids -> Exits]
        <3>1. exit' = exit \/ \E why \in Exits : exit' = [exit EXCEPT ![Id] = why]
            BY <2>1 DEF StepKinds, MovesOn, Announces, Shows, EndsKept, EndsEarly, EndsUnkept, EndsAs,
                    SendsAgain, RoundRestarts, GoesOn, Answers, ClearKeys, Stores,
                    FinalizePartialMessages, Exits
        <3> QED BY <3>1 DEF TypeOK
    <2> QED BY <2>2, <2>3, <2>4, <2>5, <2>6, <2>7, <2>8, <2>9, <2>10 DEF TypeOK
<1> QED BY <1>1, <1>2

-----------------------------------------------------------------------------
(* The invariant, kind of step by kind of step. *)

\* What the steps of an attempt share: the types, and the other attempts' state.
LEMMA Basics ==
    ASSUME TypeOK
    PROVE  /\ Id \in Ids \ {0} /\ Id \in Nat /\ 0 \in Ids
           /\ \A i \in Ids : i \in Nat /\ seen[i] \in Seq(Chunks) /\ Len(seen[i]) \in Nat
           /\ turn.parts \in Seq(Chunks) /\ turn.got \in Seq(Chunks) /\ turn.blocks \in Seq(Chunks)
           /\ Len(turn.parts) \in Nat /\ turn.shown \in Nat /\ turn.round \in Nat
           /\ Len(turn.got) \in Nat /\ turn.cued \in BOOLEAN /\ turn.extra \in BOOLEAN
           /\ \A s \in Seq(Chunks) : \A j \in 1..Len(s) : s[j][1] \in Nat /\ s[j][2] \in Nat
<1> USE ProvidersAssumption
<1>1. Id \in Ids \ {0} /\ Id \in Nat /\ 0 \in Ids
    BY DEF TypeOK, Id, Ids
<1>2. \A i \in Ids : i \in Nat /\ seen[i] \in Seq(Chunks) /\ Len(seen[i]) \in Nat
    BY DEF TypeOK, Ids
<1>3. /\ turn.parts \in Seq(Chunks) /\ turn.got \in Seq(Chunks) /\ turn.blocks \in Seq(Chunks)
      /\ turn.shown \in Nat /\ turn.round \in Nat /\ turn.cued \in BOOLEAN /\ turn.extra \in BOOLEAN
    BY DEF TypeOK, Turns
<1>5. Len(turn.parts) \in Nat /\ Len(turn.got) \in Nat
    BY <1>3
<1>4. ASSUME NEW s \in Seq(Chunks), NEW j \in 1..Len(s) PROVE s[j][1] \in Nat /\ s[j][2] \in Nat
    <2>1. s[j] \in Chunks
        OBVIOUS
    <2> QED BY <2>1 DEF Chunks
<1> QED BY <1>1, <1>2, <1>3, <1>4, <1>5, Zenon

\* An attempt that ended is settled for good: only its own steps touch it.
Settled(i) ==
    /\ seen[i] # <<>> => cache[i] \/ rows[i].state # "none" \/ i \in lost
    /\ exit[i] \notin {"open", "unkept"} => ~cache[i]
    /\ exit[i] \in {"kept", "aborted"} /\ rows[i].state # "none" =>
          rows[i].text = seen[i] \/ Fragment(i)

LEMMA SettledIsClosed == ClosedTurnIsSettled <=> \A i \in Ids \ {0} : Settled(i)
BY DEF ClosedTurnIsSettled, Settled

LEMMA OthersSettled ==
    ASSUME NEW i \in Ids, Settled(i), kind' = kind,
           seen'[i] = seen[i], rows'[i] = rows[i], cache'[i] = cache[i], exit'[i] = exit[i],
           lost \subseteq lost'
    PROVE  Settled(i)'
BY DEF Settled, Fragment

LEMMA AppendToConcat ==
    \A s, t \in Seq(Chunks) : \A e \in Chunks : Append(s \o t, e) = s \o Append(t, e)
<1> DEFINE S == Chunks
<1> SUFFICES ASSUME NEW s \in Seq(S), NEW t \in Seq(S), NEW e \in S
             PROVE  Append(s \o t, e) = s \o Append(t, e)
    OBVIOUS
<1> HIDE DEF S
<1>1. s \o t \in Seq(S) /\ <<e>> \in Seq(S)
    OBVIOUS
<1>2. Append(s \o t, e) = (s \o t) \o <<e>>
    BY <1>1, AppendIsConcat
<1>3. Append(t, e) = t \o <<e>>
    BY AppendIsConcat
<1>4. (s \o t) \o <<e>> = s \o (t \o <<e>>)
    BY <1>1, ConcatAssociative
<1> QED BY <1>2, <1>3, <1>4, Zenon

LEMMA MovesOnStep ==
    ASSUME TypeOK, CallInv, kind' = kind, MovesOn
    PROVE  CallInv'
<1>0. UNCHANGED <<attempt, turn, seen, rows, cache, exit, lost>> /\ Id' = Id
    BY DEF MovesOn, Id
<1>1. FreshInv'
    BY <1>0 DEF CallInv, FreshInv, Untouched, MovesOn, Early
<1>2. RoundInv'
    BY <1>0 DEF CallInv, RoundInv
<1>3. ShownInv'
    <2>1. CASE pc \in Early
        <3>1. seen[Id] = <<>> /\ turn = NewTurn
            BY <2>1 DEF CallInv, FreshInv, Untouched
        <3>2. InRounds(NewTurn) /\ Kept(NewTurn) /\ ~NewTurn.extra /\ NewTurn.parts = <<>>
            BY DEF InRounds, Kept, NewTurn
        <3>3. InRounds(turn') /\ Kept(turn') /\ ~turn'.extra /\ turn'.parts = <<>>
            BY <1>0, <3>1, <3>2
        <3>4. pc' # "save"
            BY <2>1 DEF MovesOn, Early
        <3> QED BY <1>0, <3>1, <3>3, <3>4 DEF CallInv, ShownInv
    <2>2. CASE pc \notin Early
        BY <1>0, <2>2 DEF CallInv, ShownInv, MovesOn, Told
    <2> QED BY <2>1, <2>2
<1>4. FragmentInv'
    BY <1>0 DEF CallInv, FragmentInv, FreshInv, Untouched, MovesOn, Early, Fragment
<1>5. FinalInv'
    BY <1>0 DEF CallInv, FinalInv, MovesOn, Early, Told
<1>6. ClosedTurnIsSettled'
    BY <1>0, OthersSettled, SettledIsClosed DEF CallInv, ClosedTurnIsSettled, Fragment
<1> QED BY <1>1, <1>2, <1>3, <1>4, <1>5, <1>6 DEF CallInv

LEMMA AnnouncesStep ==
    ASSUME TypeOK, CallInv, kind' = kind, Announces
    PROVE  CallInv'
<1>0. /\ UNCHANGED <<attempt, seen, rows, exit, lost>> /\ Id' = Id /\ pc = "open" /\ pc' = "stream"
      /\ \A i \in Ids \ {Id} : cache'[i] = cache[i]
    BY DEF Announces, Id, TypeOK
<1>1. seen[Id] = <<>> /\ rows[Id].state = "none" /\ exit[Id] = "open" /\ turn = NewTurn
    BY <1>0 DEF CallInv, FreshInv, Untouched, Early
<1>2. /\ turn'.parts = <<>> /\ turn'.blocks = <<>> /\ turn'.got = <<>> /\ turn'.shown = 0
      /\ turn'.round = 1 /\ turn'.cued = FALSE /\ turn'.extra = FALSE
    BY <1>1 DEF Announces, NewTurn
<1>3. Id \in Ids \ {0} /\ Id \in Nat /\ \A i \in Ids : i \in Nat
    BY Basics
<1>4. FreshInv'
    BY <1>0, <1>1, <1>3 DEF CallInv, FreshInv, Untouched, Early
<1>5. RoundInv'
    BY <1>2, ProvidersAssumption DEF RoundInv
<1>6. ShownInv'
    <2>1. <<>> \o <<>> = <<>> /\ Len(<<>>) = 0
        OBVIOUS
    <2>2. InRounds(turn)' /\ Kept(turn)'
        BY <1>2, <2>1 DEF InRounds, Kept
    <2> QED BY <1>0, <1>1, <1>2, <2>2 DEF CallInv, ShownInv
<1>7. FragmentInv'
    BY <1>0, <1>1 DEF FragmentInv
<1>8. FinalInv'
    BY <1>0 DEF CallInv, FinalInv
<1>9. ClosedTurnIsSettled'
    <2>1. ASSUME NEW i \in Ids \ {0} PROVE Settled(i)'
        <3>1. CASE i = Id
            BY <1>0, <1>1, <3>1 DEF Settled
        <3>2. CASE i # Id
            BY <1>0, <3>2, OthersSettled, SettledIsClosed DEF CallInv
        <3> QED BY <3>1, <3>2
    <2> QED BY <2>1 DEF ClosedTurnIsSettled, Settled
<1> QED BY <1>4, <1>5, <1>6, <1>7, <1>8, <1>9 DEF CallInv

\* A chunk is new: earlier rounds and this answer so far have not shown it.
LEMMA ShowsStep ==
    ASSUME TypeOK, CallInv, kind' = kind, NEW c \in {"text", "thinking", "call"}, Shows(c)
    PROVE  CallInv'
<1>0. /\ UNCHANGED <<attempt, rows, exit, lost>> /\ Id' = Id /\ pc = "stream" /\ pc' = "stream"
      /\ \A i \in Ids \ {Id} : cache'[i] = cache[i] /\ seen'[i] = seen[i]
      /\ Id \in Ids => cache'[Id]
    BY DEF Shows, ToCome, Id, TypeOK
<1>1. /\ turn' \in Turns /\ Here \in Chunks
      /\ turn'.parts = (IF c = "text" THEN Append(turn.parts, Here) ELSE turn.parts)
      /\ turn'.got = (IF c = "text" THEN Append(turn.got, Here) ELSE turn.got)
      /\ turn'.round = turn.round /\ turn'.extra = turn.extra
      /\ turn'.shown = turn.shown /\ turn'.blocks = turn.blocks /\ turn'.cued = turn.cued
    BY ShowsTyped DEF CallInv
<1>2. InRounds(turn) /\ Kept(turn) /\ seen[Id] = turn.parts /\ ~turn.extra
    BY <1>0 DEF CallInv, ShownInv
<1>3. /\ Id \in Ids \ {0} /\ Id \in Nat /\ \A i \in Ids : i \in Nat
      /\ turn.parts \in Seq(Chunks) /\ turn.got \in Seq(Chunks) /\ turn.blocks \in Seq(Chunks)
      /\ Len(turn.parts) \in Nat /\ turn.shown \in Nat /\ turn.round \in Nat
      /\ Len(turn.got) \in Nat /\ turn.cued \in BOOLEAN
      /\ \A s \in Seq(Chunks) : \A j \in 1..Len(s) : s[j][1] \in Nat /\ s[j][2] \in Nat
    BY Basics
<1>4. exit[Id] = "open"
    BY <1>0 DEF CallInv, FreshInv
<1>5. seen'[Id] = turn'.parts
    BY <1>1, <1>2, <1>3 DEF Shows, TypeOK
<1>6. FreshInv'
    BY <1>0, <1>3, <1>4 DEF CallInv, FreshInv, Untouched, Early
<1>7. RoundInv'
    BY <1>1 DEF CallInv, RoundInv
<1> DEFINE p == turn.parts
           n == Len(p)
           g == Len(turn.got)
<1>a. n \in Nat /\ g \in Nat /\ turn.shown \in Nat /\ turn.round \in Nat
    BY <1>3
<1>b. turn'.round = turn.round /\ turn'.shown = turn.shown
    BY <1>1
<1>c. /\ n = turn.shown + g
      /\ \A j \in 1..turn.shown : p[j][1] < turn.round
      /\ \A j \in 1..g : p[turn.shown + j] = turn.got[j] /\ turn.got[j] = <<turn.round, j>>
    BY <1>2 DEF InRounds
<1>d. \A j \in 1..n : p[j][1] \in Nat /\ p[j][2] \in Nat
    BY <1>3
<1>8. Here = <<turn.round, g + 1>> /\ Here[1] = turn.round /\ Here[2] = g + 1
    BY DEF Here, NextChunk
<1>9. ASSUME c = "text"
      PROVE  /\ Len(turn'.parts) = n + 1 /\ turn'.parts[n + 1] = Here
             /\ \A j \in 1..n : turn'.parts[j] = p[j]
             /\ \A j \in 1..(n + 1) : j \in 1..n \/ j = n + 1
             /\ Len(turn'.got) = g + 1 /\ turn'.got[g + 1] = Here
             /\ \A j \in 1..g : turn'.got[j] = turn.got[j]
             /\ \A j \in 1..(g + 1) : j \in 1..g \/ j = g + 1
    <2>1. p \in Seq(Chunks) /\ Here \in Chunks /\ turn'.parts = Append(p, Here)
        BY <1>1, <1>3, <1>9
    <2>2. turn.got \in Seq(Chunks) /\ turn'.got = Append(turn.got, Here)
        BY <1>1, <1>3, <1>9
    <2>3. /\ \A j \in 1..(n + 1) : j \in 1..n \/ j = n + 1
          /\ \A j \in 1..(g + 1) : j \in 1..g \/ j = g + 1
        BY <1>a
    <2>4. /\ Len(turn'.parts) = n + 1 /\ turn'.parts[n + 1] = Here
          /\ \A j \in 1..n : turn'.parts[j] = p[j]
        BY <2>1
    <2>5. /\ Len(turn'.got) = g + 1 /\ turn'.got[g + 1] = Here
          /\ \A j \in 1..g : turn'.got[j] = turn.got[j]
        BY <2>2
    <2> QED BY <2>3, <2>4, <2>5
<1>10. ASSUME NEW j \in 1..n PROVE Before(p[j], Here)
    <2>1. CASE j <= turn.shown
        <3>1. p[j][1] < turn.round
            BY <1>a, <1>c, <2>1
        <3> QED BY <1>8, <3>1 DEF Before
    <2>2. CASE ~(j <= turn.shown)
        <3> DEFINE i == j - turn.shown
        <3>1. i \in 1..g /\ turn.shown + i = j
            BY <1>a, <1>c, <2>2
        <3>2. p[j] = <<turn.round, i>>
            <4> HIDE DEF i
            <4> QED BY <1>c, <3>1
        <3>3. p[j][1] = turn.round /\ p[j][2] = i
            BY <3>2
        <3>4. i < g + 1
            BY <1>a, <3>1
        <3> HIDE DEF i
        <3> QED BY <1>8, <3>3, <3>4 DEF Before
    <2> QED BY <2>1, <2>2
<1>11. InRounds(turn)'
    <2>1. CASE c # "text"
        <3>1. turn'.parts = p /\ turn'.got = turn.got
            BY <1>1, <2>1
        <3> QED BY <1>b, <1>2, <3>1 DEF InRounds
    <2>2. CASE c = "text"
        <3>1. Len(turn'.parts) = turn'.shown + Len(turn'.got)
            BY <1>a, <1>b, <1>c, <1>9, <2>2
        <3>2. ASSUME NEW j \in 1..turn'.shown PROVE turn'.parts[j][1] < turn'.round
            <4>1. j \in 1..turn.shown /\ j \in 1..n
                BY <1>a, <1>b, <1>c
            <4> QED BY <1>b, <1>c, <1>9, <2>2, <4>1
        <3>3. ASSUME NEW j \in 1..Len(turn'.got)
              PROVE  turn'.parts[turn'.shown + j] = turn'.got[j] /\ turn'.got[j] = <<turn'.round, j>>
            <4>1. CASE j = g + 1
                <5>1. turn'.shown + j = n + 1
                    BY <1>a, <1>b, <1>c, <4>1
                <5> QED BY <1>b, <1>8, <1>9, <2>2, <4>1, <5>1
            <4>2. CASE j \in 1..g
                <5>1. turn'.shown + j \in 1..n /\ turn'.shown + j = turn.shown + j
                    BY <1>a, <1>b, <1>c, <4>2
                <5>2. p[turn.shown + j] = turn.got[j] /\ turn.got[j] = <<turn.round, j>>
                    BY <1>c, <4>2
                <5>3. turn'.got[j] = turn.got[j] /\ turn'.parts[turn'.shown + j] = p[turn.shown + j]
                    BY <1>9, <2>2, <4>2, <5>1
                <5> QED BY <1>b, <5>2, <5>3
            <4> QED BY <1>9, <2>2, <3>3, <4>1, <4>2
        <3> QED BY <3>1, <3>2, <3>3 DEF InRounds
    <2> QED BY <2>1, <2>2
<1>12. InOrder(seen'[Id])
    <2>1. InOrder(p)
        BY <1>2, <1>3 DEF CallInv, ShownInv
    <2>2. CASE c # "text"
        BY <1>1, <1>5, <2>1, <2>2
    <2>3. CASE c = "text"
        <3>1. ASSUME NEW j \in 1..(n + 1), NEW k \in 1..(n + 1), j < k
              PROVE  Before(turn'.parts[j], turn'.parts[k])
            <4>1. j \in 1..n
                BY <1>a, <3>1
            <4>2. CASE k \in 1..n
                BY <1>9, <2>1, <2>3, <3>1, <4>1, <4>2 DEF InOrder
            <4>3. CASE k = n + 1
                BY <1>9, <1>10, <2>3, <4>1, <4>3
            <4> QED BY <1>9, <2>3, <4>2, <4>3
        <3> QED BY <1>5, <1>9, <2>3, <3>1 DEF InOrder
    <2> QED BY <2>2, <2>3
<1>13. ShownInv'
    <2>1. Kept(turn)'
        <3>1. Append(turn.blocks \o turn.got, Here) = turn.blocks \o Append(turn.got, Here)
            <4>1. turn.blocks \in Seq(Chunks) /\ turn.got \in Seq(Chunks) /\ Here \in Chunks
                BY <1>1, <1>3
            <4> QED BY <4>1, AppendToConcat
        <3> QED BY <1>1, <1>2, <3>1 DEF Kept
    <2>2. \A i \in Ids : InOrder(seen'[i])
        BY <1>0, <1>12 DEF CallInv, ShownInv
    <2> QED BY <1>0, <1>1, <1>2, <1>5, <1>11, <2>1, <2>2 DEF ShownInv
<1>14. FragmentInv'
    <2> SUFFICES ASSUME rows[Id].state # "none"
                 PROVE  /\ kind = "anthropic" /\ rows[Id].text # <<>>
                        /\ Fragment(Id)' \/ (rows[Id].text = seen'[Id] /\ turn'.shown = Len(turn'.parts))
        BY <1>0 DEF FragmentInv
    <2>1. /\ kind = "anthropic" /\ rows[Id].text # <<>>
          /\ Fragment(Id) \/ (rows[Id].text = p /\ turn.shown = n)
        BY <1>0, <1>2 DEF CallInv, FragmentInv
    <2>2. CASE c # "text"
        <3>1. seen'[Id] = seen[Id] /\ turn'.parts = p /\ turn'.shown = turn.shown
            BY <1>1, <1>2, <1>5, <2>2
        <3> QED BY <1>0, <1>2, <2>1, <3>1 DEF Fragment
    <2>3. CASE c = "text"
        <3> DEFINE m == Len(rows[Id].text)
        <3>1. m \in Nat /\ m > 0
            BY <1>3, <2>1 DEF TypeOK
        <3>2. CASE Fragment(Id)
            <4>1. m < n /\ p[m + 1][1] > p[m][1]
                BY <1>2, <3>2 DEF Fragment
            <4>2. m \in 1..n /\ m + 1 \in 1..n /\ m < n + 1
                BY <1>a, <3>1, <4>1
            <4>3. seen'[Id][m] = p[m] /\ seen'[Id][m + 1] = p[m + 1] /\ Len(seen'[Id]) = n + 1
                BY <1>5, <1>9, <2>3, <4>2
            <4> QED BY <1>0, <2>1, <3>1, <4>1, <4>2, <4>3 DEF Fragment
        <3>3. CASE rows[Id].text = p /\ turn.shown = n
            <4>1. m = n /\ n \in 1..n /\ n < n + 1
                BY <1>a, <3>1, <3>3
            <4>2. p[n][1] < turn.round
                BY <1>a, <1>c, <3>3, <4>1
            <4>3. seen'[Id][n] = p[n] /\ seen'[Id][n + 1] = Here /\ Len(seen'[Id]) = n + 1
                BY <1>5, <1>9, <2>3, <4>1
            <4>4. Here[1] > p[n][1]
                BY <1>a, <1>d, <1>8, <4>1, <4>2
            <4> QED BY <1>0, <2>1, <3>1, <4>1, <4>3, <4>4 DEF Fragment
        <3> QED BY <2>1, <3>2, <3>3
    <2> QED BY <2>2, <2>3
<1>15. FinalInv'
    BY <1>0 DEF CallInv, FinalInv
<1>16. ClosedTurnIsSettled'
    <2>1. ASSUME NEW i \in Ids \ {0} PROVE Settled(i)'
        <3>1. CASE i = Id
            BY <1>0, <1>4, <3>1 DEF Settled
        <3>2. CASE i # Id
            BY <1>0, <3>2, OthersSettled, SettledIsClosed DEF CallInv
        <3> QED BY <3>1, <3>2
    <2> QED BY <2>1 DEF ClosedTurnIsSettled, Settled
<1> QED BY <1>6, <1>7, <1>13, <1>14, <1>15, <1>16 DEF CallInv

\* The attempt that ends is settled, unless it ended without a look; the next one is
\* fresh; a call that goes on has stored nothing for good.
LEMMA AttemptEnds ==
    ASSUME TypeOK, CallInv, kind' = kind, NEW why \in {"kept", "aborted", "unkept"}, EndsAs(why),
           NEW m \in Ids, m = Id,
           \A i \in Ids \ {m} : rows'[i] = rows[i] /\ cache'[i] = cache[i],
           lost \subseteq lost', Settled(m)',
           pc' = "failed" \/ (pc \in Early \cup {"stream", "killed"} /\ rows'[m].state # "final")
    PROVE  CallInv'
<1>0. /\ seen' = seen /\ \A i \in Ids \ {m} : exit'[i] = exit[i]
      /\ m \in Nat /\ m # 0 /\ \A i \in Ids : i \in Nat
    BY Basics DEF EndsAs, TypeOK
<1>1. \A i \in Ids : i > m => Untouched(i)'
    BY <1>0 DEF CallInv, FreshInv, Untouched
<1>2. /\ turn' = NewTurn
      /\ \/ pc' \in {"failed", "aborted"} /\ Id' = m
         \/ pc' = "resolve" /\ Id' = m + 1 /\ m + 1 \in Ids
    BY Typed DEF EndsAs, Id
<1>3. FreshInv'
    <2>1. CASE pc' \in {"failed", "aborted"} /\ Id' = m
        BY <1>1, <2>1 DEF FreshInv, Early
    <2>2. CASE pc' = "resolve" /\ Id' = m + 1 /\ m + 1 \in Ids
        <3>0. m \in Nat /\ \A i \in Ids : i \in Nat
            BY <1>0
        <3>1. m + 1 > m /\ \A i \in Ids : i > m + 1 => i > m
            BY <3>0
        <3>2. Untouched(m + 1)'
            BY <1>1, <2>2, <3>1
        <3>3. Untouched(Id)'
            BY <2>2, <3>2 DEF Untouched
        <3> QED BY <1>1, <1>2, <2>2, <3>1, <3>3 DEF FreshInv, Untouched
    <2> QED BY <1>2, <2>1, <2>2
<1>4. RoundInv'
    BY <1>2, ProvidersAssumption DEF CallInv, RoundInv, NewTurn
<1>5. ShownInv'
    BY <1>0, <1>2 DEF CallInv, ShownInv
<1>6. FragmentInv'
    BY <1>2 DEF FragmentInv
<1>7. FinalInv'
    <2>1. CASE pc' = "failed"
        BY <2>1 DEF FinalInv
    <2>2. CASE pc' # "failed"
        <3>1. \A i \in Ids : rows[i].state # "final"
            BY <2>2 DEF CallInv, FinalInv, Early
        <3>2. \A i \in Ids : rows'[i].state # "final"
            BY <2>2, <3>1
        <3> QED BY <1>2, <3>2 DEF FinalInv
    <2> QED BY <2>1, <2>2
<1>8. ClosedTurnIsSettled'
    <2>1. ASSUME NEW i \in Ids \ {0} PROVE Settled(i)'
        <3>1. CASE i = m
            BY <3>1
        <3>2. CASE i # m
            BY <1>0, <3>2, OthersSettled, SettledIsClosed DEF CallInv
        <3> QED BY <3>1, <3>2
    <2> QED BY <2>1 DEF ClosedTurnIsSettled, Settled
<1> QED BY <1>3, <1>4, <1>5, <1>6, <1>7, <1>8 DEF CallInv

\* A partial row: what was shown is in it, or in the fragment a drop had left.
LEMMA EndsKeptStep ==
    ASSUME TypeOK, CallInv, kind' = kind, EndsKept
    PROVE  CallInv'
<1>1. PICK why \in {"kept", "aborted"} : EndsAs(why)
    BY DEF EndsKept
<1>2. PICK m \in Ids : m = Id
    BY Basics
<1>3. /\ pc \in {"stream", "killed"} /\ RowIsTried /\ ~cache'[m] /\ seen' = seen
      /\ \A i \in Ids \ {m} : cache'[i] = cache[i]
      /\ lost \subseteq lost'
    BY <1>1, <1>2 DEF EndsKept, EndsAs, SavePartialBlocks, RowIsTried, TypeOK
<1>4. seen[m] = turn.parts
    BY <1>2, <1>3 DEF CallInv, ShownInv
<1>5. rows[m].state # "final"
    BY <1>2, <1>3 DEF CallInv, FinalInv
<1>6. CASE rows[m].state # "none" \/ ~HasContent
    <2>1. rows' = rows
        BY <1>2, <1>3, <1>6 DEF PartialRow, RowIsTried
    <2>2. seen[m] # <<>> => rows[m].state # "none"
        BY <1>4, <1>6 DEF HasContent
    <2>3. rows[m].state # "none" => rows[m].text = seen[m] \/ Fragment(m)
        BY <1>2, <1>3 DEF CallInv, FragmentInv
    <2>4. Settled(m)'
        BY <1>3, <2>1, <2>2, <2>3 DEF Settled, Fragment
    <2> QED BY <1>1, <1>2, <1>3, <1>5, <2>1, <2>4, AttemptEnds
<1>7. CASE rows[m].state = "none" /\ HasContent
    <2>1. CASE rows' = PartialRow
        <3>1. /\ rows'[m].state = "partial" /\ rows'[m].text = turn.parts
              /\ \A i \in Ids \ {m} : rows'[i] = rows[i]
            BY <1>2, <1>7, <2>1 DEF PartialRow, TypeOK
        <3>2. Settled(m)'
            BY <1>3, <1>4, <3>1 DEF Settled
        <3> QED BY <1>1, <1>2, <1>3, <3>1, <3>2, AttemptEnds
    <2>2. CASE rows' = rows /\ lost' = lost \cup {m}
        <3>1. Settled(m)'
            BY <1>3, <1>7, <2>2 DEF Settled
        <3> QED BY <1>1, <1>2, <1>3, <1>5, <2>2, <3>1, AttemptEnds
    <2> QED BY <1>2, <1>3, <2>1, <2>2 DEF RowIsTried
<1> QED BY <1>6, <1>7

LEMMA EndsEarlyStep ==
    ASSUME TypeOK, CallInv, kind' = kind, EndsEarly
    PROVE  CallInv'
<1>1. PICK m \in Ids : m = Id
    BY Basics
<1>2. pc \in Early /\ EndsAs("kept") /\ UNCHANGED <<rows, cache, seen, lost>>
    BY DEF EndsEarly, EndsAs
<1>3. seen[m] = <<>> /\ rows[m].state = "none" /\ ~cache[m]
    BY <1>1, <1>2 DEF CallInv, FreshInv, Untouched
<1>4. Settled(m)'
    BY <1>2, <1>3 DEF Settled
<1> QED BY <1>1, <1>2, <1>3, <1>4, AttemptEnds

LEMMA EndsUnkeptStep ==
    ASSUME TypeOK, CallInv, kind' = kind, EndsUnkept
    PROVE  CallInv'
<1>1. PICK m \in Ids : m = Id
    BY Basics
<1>2. /\ pc \in {"stream", "save", "completed"} /\ (pc # "stream" => pc' = "failed")
      /\ EndsAs("unkept") /\ UNCHANGED <<rows, cache, lost>> /\ seen' = seen
    BY DEF EndsUnkept, EndsAs
<1>3. exit'[m] = "unkept" /\ m # 0
    BY <1>1, <1>2, Basics DEF EndsAs, TypeOK
<1>6. Settled(m)
    BY <1>3, SettledIsClosed DEF CallInv
<1>4. Settled(m)'
    BY <1>2, <1>3, <1>6 DEF Settled
<1>5. pc = "stream" => rows[m].state # "final"
    BY DEF CallInv, FinalInv
<1> QED BY <1>1, <1>2, <1>4, <1>5, AttemptEnds

\* A round is sent again before it has shown text of its own, so nothing is lost of it
\* and a partial kept of it ends where the round began.
LEMMA SendsAgainStep ==
    ASSUME TypeOK, CallInv, kind' = kind, SendsAgain
    PROVE  CallInv'
<1>0. /\ UNCHANGED <<pc, attempt, seen, exit>> /\ Id' = Id /\ pc = "stream" /\ kind = "anthropic"
      /\ Len(turn.parts) = turn.shown
      /\ UNCHANGED <<rows, cache, lost>> \/ (turn.parts # <<>> /\ SavePartialBlocks)
    BY DEF SendsAgain, RoundRestarts, Id
<1>1. /\ turn'.parts = turn.parts /\ turn'.got = <<>> /\ turn'.blocks = turn.blocks
      /\ turn'.shown = turn.shown /\ turn'.round = turn.round /\ turn'.cued = turn.cued
      /\ turn'.extra = turn.extra
    BY DEF SendsAgain, RoundRestarts, TypeOK, Turns
<1>2. InRounds(turn) /\ Kept(turn) /\ seen[Id] = turn.parts /\ ~turn.extra
    BY <1>0 DEF CallInv, ShownInv
<1>3. /\ Id \in Ids \ {0} /\ Id \in Nat /\ \A i \in Ids : i \in Nat
    BY Basics
<1>4. turn.got \in Seq(Chunks) /\ turn.shown \in Nat
    BY Basics
<1>5. exit[Id] = "open"
    BY <1>0 DEF CallInv, FreshInv
<1>6. /\ \A i \in Ids \ {Id} : rows'[i] = rows[i] /\ cache'[i] = cache[i]
      /\ rows'[Id] = rows[Id]
         \/ (rows[Id].state = "none" /\ rows'[Id].state = "partial" /\ turn.parts # <<>>
             /\ rows'[Id].text = turn.parts)
      /\ lost \subseteq lost'
      /\ seen[Id] # <<>> =>
            \/ UNCHANGED <<rows, cache, lost>>
            \/ rows'[Id].state # "none" \/ Id \in lost'
    <2>1. CASE UNCHANGED <<rows, cache, lost>>
        BY <2>1
    <2>2. CASE turn.parts # <<>> /\ SavePartialBlocks
        <3>1. HasContent
            BY <2>2 DEF HasContent
        <3>2. \A i \in Ids \ {Id} : cache'[i] = cache[i]
            BY <2>2 DEF SavePartialBlocks, TypeOK
        <3>3. CASE rows' = PartialRow /\ lost' = lost
            BY <1>3, <2>2, <3>1, <3>2, <3>3 DEF PartialRow, TypeOK
        <3>4. CASE rows' = rows /\ lost' = lost \cup {Id}
            BY <3>2, <3>4
        <3> QED BY <2>2, <3>3, <3>4 DEF SavePartialBlocks, RowIsTried
    <2> QED BY <1>0, <2>1, <2>2
<1>7. FreshInv'
    BY <1>0, <1>3, <1>5, <1>6 DEF CallInv, FreshInv, Untouched, Early
<1>8. RoundInv'
    BY <1>1 DEF CallInv, RoundInv
<1>9. ShownInv'
    <2>1. turn.got = <<>>
        <3>1. turn.shown = turn.shown + Len(turn.got) /\ Len(turn.got) \in Nat
            BY <1>0, <1>2, <1>4 DEF InRounds
        <3>2. Len(turn.got) = 0
            <4>1. \A x, y \in Nat : x = x + y => y = 0
                OBVIOUS
            <4> QED BY <1>4, <3>1, <4>1, Zenon
        <3> QED BY <1>4, <3>2
    <2>2. InRounds(turn)' /\ Kept(turn)'
        BY <1>1, <1>2, <2>1 DEF InRounds, Kept
    <2> QED BY <1>0, <1>1, <1>2, <2>2 DEF CallInv, ShownInv
<1>10. FragmentInv'
    <2>1. CASE rows'[Id] = rows[Id]
        BY <1>0, <1>1, <2>1 DEF CallInv, FragmentInv, Fragment
    <2>2. CASE rows'[Id].text = turn.parts /\ turn.parts # <<>>
        BY <1>0, <1>1, <1>2, <2>2 DEF FragmentInv
    <2> QED BY <1>6, <2>1, <2>2
<1>11. FinalInv'
    BY <1>0, <1>6 DEF CallInv, FinalInv
<1>12. ClosedTurnIsSettled'
    <2>0. Settled(Id)'
        <3>1. Settled(Id)
            BY <1>3, SettledIsClosed DEF CallInv
        <3> QED BY <1>0, <1>5, <1>6, <3>1 DEF Settled
    <2>1. ASSUME NEW i \in Ids \ {0} PROVE Settled(i)'
        <3>1. CASE i = Id
            BY <1>0, <2>0, <3>1
        <3>2. CASE i # Id
            BY <1>0, <1>6, <3>2, OthersSettled, SettledIsClosed DEF CallInv
        <3> QED BY <3>1, <3>2
    <2> QED BY <2>1 DEF ClosedTurnIsSettled, Settled
<1> QED BY <1>7, <1>8, <1>9, <1>10, <1>11, <1>12 DEF CallInv

LEMMA GoesOnStep ==
    ASSUME TypeOK, CallInv, kind' = kind, GoesOn
    PROVE  CallInv'
<1>0. /\ UNCHANGED <<pc, attempt, seen, rows, cache, exit, lost>> /\ Id' = Id /\ pc = "stream"
      /\ ~turn.cued
    BY DEF GoesOn, Id
<1>1. /\ turn'.parts = turn.parts /\ turn'.got = <<>> /\ turn'.extra = turn.extra
      /\ turn'.shown = Len(turn.parts) /\ turn'.round = turn.round + 1
      /\ \/ turn'.cued /\ turn'.blocks = <<>>
         \/ ~turn'.cued /\ turn'.blocks = turn.blocks \o turn.got /\ turn.round < MaxPauses + 1
    <2>1. turn \in Turns
        BY DEF TypeOK
    <2>2. /\ Answered.parts = turn.parts /\ Answered.round = turn.round
          /\ Answered.extra = turn.extra
          /\ Answered.cued = turn.cued /\ Answered.blocks = turn.blocks \o turn.got
        BY <2>1 DEF Answered, Turns
    <2>3. Answered \in Turns
        BY <2>1, Typed
    <2>4. /\ NextRound(Answered).parts = turn.parts /\ NextRound(Answered).got = <<>>
          /\ NextRound(Answered).blocks = turn.blocks \o turn.got
          /\ NextRound(Answered).shown = Len(turn.parts)
          /\ NextRound(Answered).round = turn.round + 1
          /\ NextRound(Answered).cued = turn.cued /\ NextRound(Answered) \in Turns
          /\ NextRound(Answered).extra = turn.extra
        BY <2>2, <2>3, Typed DEF NextRound, Turns
    <2>5. CASE turn' = NextRound(Answered) /\ turn.round < MaxPauses + 1
        BY <1>0, <2>4, <2>5
    <2>6. CASE turn' = [NextRound(Answered) EXCEPT !.cued = TRUE, !.blocks = <<>>]
        BY <2>4, <2>6 DEF Turns
    <2> QED BY <2>5, <2>6 DEF GoesOn
<1>2. InRounds(turn) /\ Kept(turn) /\ seen[Id] = turn.parts /\ ~turn.extra
    BY <1>0 DEF CallInv, ShownInv
<1>3. /\ turn.parts \in Seq(Chunks) /\ turn.round \in Nat /\ Len(turn.parts) \in Nat
      /\ turn.shown \in Nat /\ Len(turn.got) \in Nat
    BY Basics
<1>4. FreshInv'
    BY <1>0 DEF CallInv, FreshInv, Untouched, Early
<1>5. RoundInv'
    <2>1. 1 <= turn.round /\ turn.round <= MaxPauses + 1
        BY <1>0 DEF CallInv, RoundInv
    <2>2. 1 <= turn.round + 1 /\ turn.round + 1 <= MaxPauses + 2
        BY <1>3, <2>1, ProvidersAssumption
    <2>3. ~turn'.cued => turn.round + 1 <= MaxPauses + 1
        <3>1. ~turn'.cued => turn.round < MaxPauses + 1
            BY <1>1
        <3>2. turn.round \in Nat /\ MaxPauses \in Nat
            BY <1>3, ProvidersAssumption
        <3> QED BY <3>1, <3>2
    <2>4. turn'.round = turn.round + 1
        BY <1>1
    <2> QED BY <2>2, <2>3, <2>4 DEF RoundInv
<1>6. ShownInv'
    <2>1. InRounds(turn)'
        <3>1. ASSUME NEW j \in 1..Len(turn.parts) PROVE turn.parts[j][1] < turn.round + 1
            <4>1. CASE j \in 1..turn.shown
                <5>1. turn.parts[j][1] < turn.round /\ turn.parts[j][1] \in Nat
                    BY <1>2, <1>3, <4>1, Basics DEF InRounds
                <5> QED BY <1>3, <5>1
            <4>2. CASE j \notin 1..turn.shown
                <5> DEFINE i == j - turn.shown
                <5>1. Len(turn.parts) = turn.shown + Len(turn.got)
                    BY <1>2 DEF InRounds
                <5>2. i \in 1..Len(turn.got) /\ turn.shown + i = j
                    BY <1>3, <4>2, <5>1
                <5>3. turn.parts[j] = <<turn.round, i>>
                    <6> HIDE DEF i
                    <6> QED BY <1>2, <5>2 DEF InRounds
                <5>4. turn.parts[j][1] = turn.round
                    BY <5>3
                <5> QED BY <1>3, <5>4
            <4> QED BY <4>1, <4>2
        <3>2. Len(turn.parts) = Len(turn.parts) + Len(<<>>) /\ Len(<<>>) = 0
            BY <1>3
        <3> QED BY <1>1, <3>1, <3>2 DEF InRounds
    <2>2. turn.parts \o <<>> = turn.parts
        BY <1>3
    <2>3. Kept(turn)'
        BY <1>0, <1>1, <1>2, <2>2 DEF Kept
    <2> QED BY <1>0, <1>1, <1>2, <2>1, <2>3 DEF CallInv, ShownInv
<1>7. FragmentInv'
    BY <1>0, <1>1 DEF CallInv, FragmentInv, Fragment
<1>8. FinalInv'
    BY <1>0 DEF CallInv, FinalInv
<1>9. ClosedTurnIsSettled'
    BY <1>0 DEF CallInv, ClosedTurnIsSettled, Fragment
<1> QED BY <1>4, <1>5, <1>6, <1>7, <1>8, <1>9 DEF CallInv

\* What a turn of the stream stores: the answers it kept, or what is left of the last.
LEMMA AnswersTold ==
    ASSUME TypeOK, CallInv, pc = "stream"
    PROVE  /\ Told(turn.blocks \o turn.got, FALSE) /\ Told(turn.blocks \o turn.got, turn.extra)
           /\ kind = "responses" /\ turn.got # <<>> => Told(turn.blocks \o turn.got, TRUE)
           /\ kind = "cli" => /\ \A x \in Excerpts(turn.got) : Told(x, turn.extra)
                              /\ Told(turn.blocks, TRUE)
<1> DEFINE b == turn.blocks
           g == turn.got
           s == seen[Id]
<1>1. /\ b \in Seq(Chunks) /\ g \in Seq(Chunks) /\ s \in Seq(Chunks) /\ turn.shown \in Nat
      /\ Len(b) \in Nat /\ Len(g) \in Nat /\ Len(s) \in Nat /\ turn.cued \in BOOLEAN
    BY Basics
<1>2. /\ s = turn.parts /\ ~turn.extra /\ InOrder(s)
      /\ Len(s) = turn.shown + Len(g)
      /\ \A j \in 1..Len(g) : s[turn.shown + j] = g[j] /\ g[j] = <<turn.round, j>>
      /\ IF turn.cued THEN b = <<>> ELSE s = b \o g
    BY Basics DEF CallInv, ShownInv, InRounds, Kept
<1> DEFINE Within(x) == \A j \in 1..Len(x) : \E k \in 1..Len(s) : x[j] = s[k]
<1>3. InOrder(g) /\ Within(g)
    <2>1. InOrder(g)
        <3>1. ASSUME NEW j \in 1..Len(g), NEW k \in 1..Len(g), j < k PROVE Before(g[j], g[k])
            <4>1. g[j] = <<turn.round, j>> /\ g[k] = <<turn.round, k>>
                BY <1>2
            <4>2. g[j][1] = g[k][1] /\ g[j][2] = j /\ g[k][2] = k
                BY <4>1
            <4> QED BY <3>1, <4>2 DEF Before
        <3> QED BY <3>1 DEF InOrder
    <2>2. ASSUME NEW j \in 1..Len(g) PROVE \E k \in 1..Len(s) : g[j] = s[k]
        <3>1. turn.shown + j \in 1..Len(s)
            BY <1>1, <1>2
        <3>2. g[j] = s[turn.shown + j]
            BY <1>2
        <3> QED BY <3>1, <3>2
    <2> QED BY <2>1, <2>2
<1>4. InOrder(b) /\ Within(b)
    <2>1. CASE turn.cued
        <3>1. b = <<>> /\ Len(b) = 0
            BY <1>2, <2>1
        <3> QED BY <3>1 DEF InOrder
    <2>2. CASE ~turn.cued
        <3>1. s = b \o g
            BY <1>2, <2>2
        <3>2. \A j \in 1..Len(b) : j \in 1..Len(s) /\ b[j] = s[j]
            <4>1. /\ Len(b \o g) = Len(b) + Len(g)
                  /\ \A j \in 1..Len(b) : (b \o g)[j] = b[j]
                <5>1. b \in Seq(Chunks) /\ g \in Seq(Chunks)
                    BY <1>1
                <5> HIDE DEF b, g
                <5> QED BY <5>1
            <4>2. Len(s) = Len(b) + Len(g)
                BY <3>1, <4>1
            <4>3. \A j \in 1..Len(b) : (b \o g)[j] = b[j]
                BY <4>1
            <4>4. \A j \in 1..Len(b) : j \in 1..Len(s)
                <5>1. Len(b) \in Nat /\ Len(g) \in Nat
                    BY <1>1
                <5> HIDE DEF b, g, s
                <5> QED BY <4>2, <5>1
            <4> QED BY <3>1, <4>3, <4>4
        <3>3. Within(b)
            BY <3>2
        <3>4. InOrder(b)
            BY <1>2, <3>2 DEF InOrder
        <3> QED BY <3>3, <3>4
    <2> QED BY <2>1, <2>2
<1>5. /\ InOrder(b \o g) /\ Within(b \o g) /\ (~turn.cued => b \o g = s)
      /\ (g # <<>> => b \o g # <<>>)
    <2>1. CASE turn.cued
        <3>1. b = <<>>
            BY <1>2, <2>1
        <3>2. b \o g = g
            BY <1>1, <3>1
        <3> QED BY <1>3, <2>1, <3>2
    <2>2. CASE ~turn.cued
        <3>1. b \o g = s
            BY <1>2, <2>2
        <3>2. Within(s)
            OBVIOUS
        <3>3. g # <<>> => Len(g) > 0
            BY <1>1
        <3>4. g # <<>> => s # <<>>
            BY <1>1, <1>2, <3>3
        <3> QED BY <1>2, <3>1, <3>2, <3>4
    <2> QED BY <2>1, <2>2
<1>6. \A x \in Excerpts(g) : InOrder(x) /\ Within(x)
    <2>1. ASSUME NEW x \in Excerpts(g) PROVE InOrder(x) /\ Within(x)
        <3>1. InOrder(x) /\ \A j \in 1..Len(x) : \E k \in 1..Len(g) : x[j] = g[k]
            BY <1>1, ExcerptsTyped
        <3> QED BY <1>3, <3>1
    <2> QED BY <2>1
<1> QED BY <1>2, <1>4, <1>5, <1>6 DEF Told

LEMMA AnswersStep ==
    ASSUME TypeOK, CallInv, kind' = kind, Answers
    PROVE  CallInv'
<1>0. /\ UNCHANGED <<attempt, seen, rows, cache, exit, lost>> /\ Id' = Id
      /\ pc = "stream" /\ pc' = "save"
    BY DEF Answers, Id
<1>1. turn \in Turns
    BY DEF TypeOK
<1>2. turn'.round = turn.round /\ turn'.cued = turn.cued /\ Told(turn'.blocks, turn'.extra)
    <2>1. CASE \E c \in BOOLEAN, more \in {turn.extra, kind = "responses" /\ turn.got # <<>>} :
                 turn' = [Answered EXCEPT !.calls = c, !.extra = more]
        <3>1. PICK c \in BOOLEAN, more \in {turn.extra, kind = "responses" /\ turn.got # <<>>} :
                 turn' = [Answered EXCEPT !.calls = c, !.extra = more]
            BY <2>1
        <3>2. /\ turn'.round = turn.round /\ turn'.cued = turn.cued
              /\ turn'.blocks = turn.blocks \o turn.got /\ turn'.extra = more
            BY <1>1, <3>1 DEF Answered, Turns
        <3>3. Told(turn.blocks \o turn.got, more)
            <4>1. CASE more = turn.extra
                BY <1>0, <4>1, AnswersTold
            <4>2. CASE more = (kind = "responses" /\ turn.got # <<>>)
                <5>1. CASE kind = "responses" /\ turn.got # <<>>
                    <6>1. more = TRUE
                        BY <4>2, <5>1
                    <6> QED BY <1>0, <5>1, <6>1, AnswersTold
                <5>2. CASE ~(kind = "responses" /\ turn.got # <<>>)
                    <6>1. more = FALSE
                        BY <4>2, <5>2
                    <6> QED BY <1>0, <6>1, AnswersTold
                <5> QED BY <5>1, <5>2
            <4> QED BY <4>1, <4>2
        <3> QED BY <3>2, <3>3
    <2>2. CASE kind = "cli" /\ turn' \in CLIBlocks(turn)
        <3>1. CASE turn' = [turn EXCEPT !.calls = FALSE, !.extra = TRUE]
            <4>1. /\ turn'.round = turn.round /\ turn'.cued = turn.cued
                  /\ turn'.blocks = turn.blocks /\ turn'.extra = TRUE
                BY <1>1, <3>1 DEF Turns
            <4> QED BY <1>0, <2>2, <4>1, AnswersTold
        <3>2. CASE \E x \in Excerpts(turn.got), c \in {turn.calls, TRUE} :
                     turn' = [turn EXCEPT !.blocks = x, !.calls = c]
            <4>1. PICK x \in Excerpts(turn.got), c \in {turn.calls, TRUE} :
                     turn' = [turn EXCEPT !.blocks = x, !.calls = c]
                BY <3>2
            <4>2. /\ turn'.round = turn.round /\ turn'.cued = turn.cued
                  /\ turn'.blocks = x /\ turn'.extra = turn.extra
                BY <1>1, <4>1 DEF Turns
            <4>3. Told(x, turn.extra)
                BY <1>0, <2>2, <4>1, AnswersTold
            <4> QED BY <4>2, <4>3
        <3> QED BY <2>2, <3>1, <3>2, CLIBlockForms
    <2> QED BY <2>1, <2>2 DEF Answers
<1>3. FreshInv'
    BY <1>0 DEF CallInv, FreshInv, Untouched, Early
<1>4. RoundInv'
    BY <1>2 DEF CallInv, RoundInv
<1>5. ShownInv'
    BY <1>0, <1>2 DEF CallInv, ShownInv, Told
<1>6. FragmentInv'
    BY <1>0 DEF CallInv, FragmentInv, Fragment
<1>7. FinalInv'
    BY <1>0 DEF CallInv, FinalInv
<1>8. ClosedTurnIsSettled'
    BY <1>0 DEF CallInv, ClosedTurnIsSettled, Fragment
<1> QED BY <1>3, <1>4, <1>5, <1>6, <1>7, <1>8 DEF CallInv

LEMMA StoresStep ==
    ASSUME TypeOK, CallInv, kind' = kind, Stores
    PROVE  CallInv'
<1>0. /\ UNCHANGED <<attempt, turn, seen, cache, exit, lost>> /\ Id' = Id
      /\ pc = "save" /\ pc' = "completed"
      /\ rows'[Id].state = "final" /\ rows'[Id].text = turn.blocks /\ rows'[Id].extra = turn.extra
      /\ \A i \in Ids \ {Id} : rows'[i] = rows[i]
    BY Basics DEF Stores, Id, TypeOK
<1>1. Told(turn.blocks, turn.extra) /\ exit[Id] = "open"
    BY <1>0 DEF CallInv, ShownInv, FreshInv
<1>2. Id \in Ids \ {0} /\ Id \in Nat /\ \A i \in Ids : i \in Nat
    BY Basics
<1>3. FreshInv'
    BY <1>0, <1>1, <1>2 DEF CallInv, FreshInv, Untouched, Early
<1>4. RoundInv'
    BY <1>0 DEF CallInv, RoundInv
<1>5. ShownInv'
    BY <1>0 DEF CallInv, ShownInv
<1>6. FragmentInv'
    BY <1>0 DEF FragmentInv
<1>7. FinalInv'
    BY <1>0, <1>1 DEF CallInv, FinalInv, Told
<1>8. ClosedTurnIsSettled'
    <2>1. ASSUME NEW i \in Ids \ {0} PROVE Settled(i)'
        <3>1. CASE i = Id
            BY <1>0, <1>1, <3>1 DEF Settled
        <3>2. CASE i # Id
            BY <1>0, <3>2, OthersSettled, SettledIsClosed DEF CallInv
        <3> QED BY <3>1, <3>2
    <2> QED BY <2>1 DEF ClosedTurnIsSettled, Settled
<1> QED BY <1>3, <1>4, <1>5, <1>6, <1>7, <1>8 DEF CallInv

LEMMA ClearKeysStep ==
    ASSUME TypeOK, CallInv, kind' = kind, ClearKeys
    PROVE  CallInv'
<1>0. /\ UNCHANGED <<attempt, turn, seen, rows, lost>> /\ Id' = Id
      /\ pc = "clear" /\ pc' = "returned" /\ ~cache'[Id] /\ exit'[Id] = "answered"
      /\ \A i \in Ids \ {Id} : cache'[i] = cache[i] /\ exit'[i] = exit[i]
    BY Basics DEF ClearKeys, Id, TypeOK
<1>1. rows[Id].state = "final"
    BY <1>0 DEF CallInv, FinalInv
<1>2. Id \in Ids \ {0} /\ Id \in Nat /\ \A i \in Ids : i \in Nat
    BY Basics
<1>3. FreshInv'
    BY <1>0, <1>2 DEF CallInv, FreshInv, Untouched, Early
<1>4. RoundInv'
    BY <1>0 DEF CallInv, RoundInv
<1>5. ShownInv'
    BY <1>0 DEF CallInv, ShownInv
<1>6. FragmentInv'
    BY <1>0 DEF FragmentInv
<1>7. FinalInv'
    BY <1>0, <1>1 DEF CallInv, FinalInv, Told
<1>8. ClosedTurnIsSettled'
    <2>1. ASSUME NEW i \in Ids \ {0} PROVE Settled(i)'
        <3>1. CASE i = Id
            BY <1>0, <1>1, <3>1 DEF Settled
        <3>2. CASE i # Id
            BY <1>0, <3>2, OthersSettled, SettledIsClosed DEF CallInv
        <3> QED BY <3>1, <3>2
    <2> QED BY <2>1 DEF ClosedTurnIsSettled, Settled
<1> QED BY <1>3, <1>4, <1>5, <1>6, <1>7, <1>8 DEF CallInv

LEMMA FinalizeStep ==
    ASSUME TypeOK, CallInv, kind' = kind, FinalizePartialMessages
    PROVE  CallInv'
<1>0. /\ UNCHANGED <<attempt, turn, seen, cache, exit, lost>> /\ Id' = Id
      /\ pc = "aborted" /\ pc' = "promoted"
    BY DEF FinalizePartialMessages, Id
<1>1. \A i \in Ids : rows'[i].text = rows[i].text /\ (rows'[i].state = "none" <=> rows[i].state = "none")
    <2>1. ASSUME NEW i \in Ids
          PROVE  rows'[i].text = rows[i].text /\ (rows'[i].state = "none" <=> rows[i].state = "none")
        <3>1. rows'[i] = IF rows[i].state = "partial" THEN [rows[i] EXCEPT !.state = "final"] ELSE rows[i]
            BY DEF FinalizePartialMessages
        <3>2. rows[i] \in [state : {"none", "partial", "final"}, text : Seq(Chunks),
                           calls : BOOLEAN, extra : BOOLEAN]
            BY DEF TypeOK
        <3> QED BY <3>1, <3>2
    <2> QED BY <2>1
<1>2. FreshInv'
    BY <1>0, <1>1 DEF CallInv, FreshInv, Untouched, Early
<1>3. RoundInv'
    BY <1>0 DEF CallInv, RoundInv
<1>4. ShownInv'
    BY <1>0 DEF CallInv, ShownInv
<1>5. FragmentInv' /\ FinalInv'
    BY <1>0 DEF FragmentInv, FinalInv
<1>6. ClosedTurnIsSettled'
    BY <1>0, <1>1 DEF CallInv, ClosedTurnIsSettled, Fragment
<1> QED BY <1>2, <1>3, <1>4, <1>5, <1>6 DEF CallInv

LEMMA InvStep == TypeOK /\ CallInv /\ [CallNext]_callVars => CallInv'
<1> SUFFICES ASSUME TypeOK, CallInv, [CallNext]_callVars PROVE CallInv'
    OBVIOUS
<1>1. CASE UNCHANGED callVars
    <2>1. UNCHANGED <<kind, pc, attempt, turn, seen, rows, cache, exit, lost>>
        BY <1>1 DEF callVars
    <2>2. MovesOn /\ kind' = kind
        BY <2>1 DEF MovesOn
    <2> QED BY <2>2, MovesOnStep
<1>2. CASE CallNext
    <2>1. StepKinds /\ kind' = kind
        BY <1>2, EveryStepHasAKind
    <2> QED BY <2>1, MovesOnStep, AnnouncesStep, ShowsStep, EndsKeptStep, EndsEarlyStep,
               EndsUnkeptStep, SendsAgainStep, GoesOnStep, AnswersStep, StoresStep, ClearKeysStep,
               FinalizeStep DEF StepKinds
<1> QED BY <1>1, <1>2

LEMMA InitTyped == CallInit => TypeOK /\ CallInv
<1> SUFFICES ASSUME CallInit PROVE TypeOK /\ CallInv
    OBVIOUS
<1> USE ProvidersAssumption
<1>1. attempt = 0 /\ Id = 1 /\ 1 \in Ids /\ 0 \in Ids /\ \A i \in Ids : i \in Nat
    BY DEF CallInit, Id, Ids
<1> DEFINE Row == [state : {"none", "partial", "final"}, text : Seq(Chunks),
                   calls : BOOLEAN, extra : BOOLEAN]
<1>2. NoRow \in Row /\ NoRow.state = "none"
    <2>1. <<>> \in Seq(Chunks)
        OBVIOUS
    <2> QED BY <2>1 DEF NoRow
<1>3. \E r \in Row : r.state # "final" /\ rows = [i \in Ids |-> IF i = 0 THEN r ELSE NoRow]
    <2>1. [NoRow EXCEPT !.state = "partial"] \in Row /\ [NoRow EXCEPT !.state = "partial"].state = "partial"
        BY <1>2
    <2>2. rows = [i \in Ids |-> IF i = 0 THEN [NoRow EXCEPT !.state = "partial"] ELSE NoRow]
        BY DEF CallInit
    <2> HIDE DEF Row
    <2> QED BY <1>2, <2>1, <2>2
<1> HIDE DEF Row
<1>r. PICK r \in Row : r.state # "final" /\ rows = [i \in Ids |-> IF i = 0 THEN r ELSE NoRow]
    BY <1>3
<1>4. TypeOK
    <2>1. kind \in Kinds /\ option \in BOOLEAN /\ active \in BOOLEAN /\ busy \in BOOLEAN
          /\ abortKey \in BOOLEAN /\ lost \subseteq Ids
        BY DEF CallInit
    <2>2. attempt \in 0..MaxRetries
        BY <1>1
    <2>3. seen \in [Ids -> Seq(Chunks)] /\ cache \in [Ids -> BOOLEAN] /\ exit \in [Ids -> Exits]
        BY DEF CallInit, Exits
    <2>4. rows \in [Ids -> Row]
        BY <1>2, <1>r
    <2>5. turn \in Turns /\ pc = "resolve"
        BY Typed DEF CallInit
    <2> QED BY <2>1, <2>2, <2>3, <2>4, <2>5 DEF TypeOK, Row
<1>5. \A i \in Ids : /\ seen[i] = <<>> /\ ~cache[i] /\ rows[i].state # "final"
                     /\ i # 0 => rows[i].state = "none" /\ exit[i] = "open"
    BY <1>2, <1>r DEF CallInit
<1>6. FreshInv
    BY <1>1, <1>5 DEF FreshInv, Untouched, CallInit, Early
<1>7. RoundInv
    BY DEF RoundInv, CallInit, NewTurn
<1>8. ShownInv
    BY <1>5 DEF ShownInv, InOrder, CallInit
<1>9. FragmentInv /\ FinalInv
    BY <1>5 DEF FragmentInv, FinalInv, CallInit
<1>10. ClosedTurnIsSettled
    BY <1>5 DEF ClosedTurnIsSettled
<1> QED BY <1>4, <1>6, <1>7, <1>8, <1>9, <1>10 DEF CallInv

-----------------------------------------------------------------------------
(* The theorems. *)

\* Every variable of a call keeps its type, and every chunk shown is one of the
\* rounds the continuations and the cue of an empty turn allow.
THEOREM CallTypeCorrect == CallSpec => []TypeOK
<1>1. TypeOK /\ CallInv /\ [CallNext]_callVars => (TypeOK /\ CallInv)'
    BY CallTypeStep, InvStep
<1> QED BY <1>1, InitTyped, PTL DEF CallSpec

\* The inductive invariant of a call: the attempts to come are untouched; what is shown
\* is in order and is the rounds the turn has been through and its answer so far; what
\* is to be stored is an excerpt of that, all of it where nothing is cut; and a row
\* written early is a fragment that ends where a round began.
THEOREM CallInvariant == CallSpec => []CallInv
<1>1. TypeOK /\ CallInv /\ [CallNext]_callVars => (TypeOK /\ CallInv)'
    BY CallTypeStep, InvStep
<1> QED BY <1>1, InitTyped, PTL DEF CallSpec

\* No chunk is shown twice under a message id, and a call that returns has stored one
\* message under it: what the user saw, in that order, where only the CLI and a blank
\* answer cut text out and only the CLI and the Responses API add some
\* (_stream_round_retrying, and the end of `complete' in every provider).
THEOREM ShownOnce == CallSpec => []ShownOnceStoredOnce
<1>1. TypeOK /\ CallInv => ShownOnceStoredOnce
    <2> SUFFICES ASSUME TypeOK, CallInv PROVE ShownOnceStoredOnce
        OBVIOUS
    <2>1. ASSUME NEW i \in Ids, NEW j \in 1..Len(seen[i]), NEW k \in 1..Len(seen[i]),
                 seen[i][j] = seen[i][k]
          PROVE  j = k
        <3>1. InOrder(seen[i])
            BY DEF CallInv, ShownInv
        <3>2. seen[i][j][1] \in Nat /\ seen[i][j][2] \in Nat
            BY Basics
        <3>3. ~Before(seen[i][j], seen[i][k]) /\ ~Before(seen[i][k], seen[i][j])
            BY <2>1, <3>2 DEF Before
        <3>4. ~(j < k) /\ ~(k < j)
            BY <3>1, <3>3 DEF InOrder
        <3> QED BY <3>4
    <2>2. pc = "returned" =>
            /\ rows[Id].state = "final" /\ \A i \in Ids \ {Id} : rows[i].state # "final"
            /\ Told(rows[Id].text, rows[Id].extra)
        BY DEF CallInv, FinalInv
    <2> QED BY <2>1, <2>2 DEF ShownOnceStoredOnce, Told
<1> QED BY <1>1, CallTypeCorrect, CallInvariant, PTL

\* The text shown of an attempt is in its stream keys or in its row, unless the save of
\* its partial row failed; once it ended after a look at what it streamed the keys are
\* gone and the row holds that text (_save_partial_blocks, _save_partial).
THEOREM ClosedIsSettled == CallSpec => []ClosedTurnIsSettled
<1>1. CallInv => ClosedTurnIsSettled
    BY DEF CallInv
<1> QED BY <1>1, CallInvariant, PTL
=============================================================================
