----------------------------- MODULE Requests -----------------------------
(***************************************************************************)
(* What ConnectorRegistry._execute_http puts on the wire for one operation *)
(* (src/luna_core/connectors/registry.py): parameter defaults, path        *)
(* substitution, the distribution of the input over query, headers and     *)
(* body, the interpolated templates and the credentials.                   *)
(*                                                                         *)
(* A value is abstracted to where it comes from: "input", "null" (an       *)
(* explicit None of the caller), "default", "literal" (a constant of the   *)
(* template) or "secret".  A name that an operation may use is a Key;      *)
(* AuthKey is the one the api_key authenticator writes under.              *)
(***************************************************************************)
EXTENDS Naturals, FiniteSets, Functions

CONSTANTS Key, AuthKey

\* An operation row, as far as the request depends on it.  decl gives each
\* declared parameter its `in`; dflt the declared names with a default; tmpl
\* the fixed body, which need not be an object, and keys the placeholders in
\* it; hdrs the fixed headers.
Shapes ==
  [method: {"GET", "POST"}, path: SUBSET Key,
   decl: UNION {[D -> {"path", "query", "header", "body"}] : D \in SUBSET Key},
   dflt: SUBSET Key, tmpl: {"none", "list", "object"}, keys: SUBSET Key,
   hdrs: SUBSET {AuthKey}]

Inputs == UNION {[D -> {"input", "null"}] : D \in SUBSET Key}

\* _apply_parameter_defaults: a default stands in for a missing key only.
Effective(s, in) ==
  [k \in DOMAIN in \cup (s.dflt \cap DOMAIN s.decl) |->
     IF k \in DOMAIN in THEN in[k] ELSE "default"]

\* _substitute_path_params raises on a placeholder without a value.
PathFails(s, in) ==
  \E k \in s.path : k \notin DOMAIN Effective(s, in) \/ Effective(s, in)[k] = "null"

\* _path_placeholders: what the path consumed is in no bucket.
Payload(s, in) ==
  Restrict(Effective(s, in), DOMAIN Effective(s, in) \ s.path)

\* _distribute_input: declared parameters go where `in` says and the rest is
\* dropped; without any, everything goes to the body or to the query.
Bucket(s, in, dest) ==
  LET p == Payload(s, in)
  IN IF DOMAIN s.decl = {}
     THEN IF dest = (IF s.method = "POST" THEN "body" ELSE "query")
          THEN p ELSE << >>
     ELSE Restrict(p, {k \in DOMAIN p \cap DOMAIN s.decl : s.decl[k] = dest})

\* _template_placeholders of the fixed body.
TemplateKeys(s) == IF s.tmpl = "none" THEN {} ELSE s.keys

\* Seeded fault: the leftovers the template consumed stay in the body.
BodyValuesAll(s, in) == Bucket(s, in, "body")

\* What is left for the root of the body once the template took its own.
BodyValues(s, in) ==
  LET b == Bucket(s, in, "body")
  IN Restrict(b, DOMAIN b \ TemplateKeys(s))

\* _interpolate: a placeholder takes the value of the merged input, and stays
\* literal without one.
Interpolated(s, in) ==
  [k \in TemplateKeys(s) |->
     IF k \in DOMAIN Effective(s, in) THEN Effective(s, in)[k] ELSE "literal"]

\* _merge_body: the template under "template", the caller's fields beside it;
\* a template that is not an object is sent alone.
JsonBody(s, in) ==
  IF s.method # "POST" THEN [template |-> << >>, root |-> << >>]
  ELSE [template |-> Interpolated(s, in),
        root |-> IF s.tmpl = "list" THEN << >> ELSE BodyValues(s, in)]

\* dict.update: the items of g are put over those of f.
Updated(f, g) ==
  [k \in DOMAIN f \cup DOMAIN g |-> IF k \in DOMAIN g THEN g[k] ELSE f[k]]

\* final_headers: fixed ones, then the caller's, then the authenticator's.
FinalHeaders(s, in, auth) ==
  Updated(Updated([k \in s.hdrs |-> "literal"], Bucket(s, in, "header")), auth)

\* params: the authenticator's, overwritten by the caller's values; a None
\* is not sent.
FinalParams(s, in, auth) ==
  LET q == Bucket(s, in, "query")
  IN Updated(auth, Restrict(q, {k \in DOMAIN q : q[k] # "null"}))

\* request_kwargs of one attempt.  where says how the authenticator adds its
\* credentials: as a header, as a query parameter or not by name at all.
Build(s, in, where) ==
  LET secret == [k \in {AuthKey} |-> "secret"]
  IN [path    |-> Restrict(Effective(s, in), s.path),
      headers |-> FinalHeaders(s, in, IF where = "header" THEN secret ELSE << >>),
      params  |-> FinalParams(s, in, IF where = "query" THEN secret ELSE << >>),
      body    |-> JsonBody(s, in)]
=============================================================================
