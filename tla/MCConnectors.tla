--------------------------- MODULE MCConnectors ---------------------------
(* Small instances of Connectors.  The auth type picks the question: with    *)
(* oauth2 two calls in two processes and one admin request; with none a call *)
(* among three admin requests; with api_key one call of every operation      *)
(* shape with every input.                                                   *)
EXTENDS Connectors

CONSTANTS c1, c2

PlainShape == [method |-> "POST", path |-> {}, decl |-> << >>, dflt |-> {},
               tmpl |-> "none", keys |-> {}, hdrs |-> {}]
PlainRequest == [shape |-> PlainShape, in |-> << >>, where |-> "none"]

MCCallsOf ==
  [none    |-> {<<c1, "api", "execute">>, <<c1, "api", "test">>},
   api_key |-> {<<c1, "api", "test">>},
   oauth2  |-> {<<c1, "api", "execute">>, <<c1, "api", "draft">>,
                <<c2, "api", "test">>, <<c2, "worker", "execute">>}]
MCAdminsOf ==
  [none    |-> [max |-> 3, kinds |-> {"create", "update", "delete", "register", "drop", "load"}],
   api_key |-> [max |-> 0, kinds |-> {}],
   oauth2  |-> [max |-> 1, kinds |-> {"register", "drop", "popup"}]]
MCProvidersOf ==
  [none |-> {<<FALSE, FALSE, TRUE>>}, api_key |-> {<<FALSE, FALSE, TRUE>>},
   oauth2 |-> {<<TRUE, TRUE, TRUE>>, <<TRUE, FALSE, TRUE>>, <<FALSE, TRUE, TRUE>>,
               <<TRUE, TRUE, FALSE>>}]
MCRestartBudget == [none |-> 1, api_key |-> 0, oauth2 |-> 0]

\* Only k is a path parameter, has a default, may be null and is used by the
\* body template; both names can be declared with every `in`.
MCRequestsOf ==
  [none |-> {PlainRequest}, oauth2 |-> {PlainRequest},
   api_key |-> {r \in [shape : Shapes, in : Inputs, where : {"header", "query"}] :
                  /\ r.shape.path \cup r.shape.keys \cup r.shape.dflt \subseteq {"k"}
                  /\ r.shape.dflt \subseteq DOMAIN r.shape.decl
                  /\ r.shape.tmpl = "none" => r.shape.keys = {}
                  /\ AuthKey \in DOMAIN r.in => r.in[AuthKey] = "input"}]

\* Two calls of one process and nothing else.
SiblingCalls == [none |-> {}, api_key |-> {},
                 oauth2 |-> {<<c1, "api", "execute">>, <<c2, "api", "execute">>}]
OneCall == [SiblingCalls EXCEPT !["oauth2"] = {<<c1, "api", "execute">>}]
NoAdmins == [t \in {"none", "api_key", "oauth2"} |-> [max |-> 0, kinds |-> {}]]
=============================================================================
