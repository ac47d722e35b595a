----------------------------- MODULE Admission -----------------------------
(***************************************************************************)
(* What is asked of a request before any upstream is: internal/auth and    *)
(* RequireBearer (who is the client), capabilities.ValidatePublicSurface   *)
(* (what the public endpoints offer at all) and ValidateRequest (what the  *)
(* client's policy and the model's family allow).                          *)
(*                                                                         *)
(* An Authorization header is [scheme, token].                             *)
(***************************************************************************)
EXTENDS Naturals, Gathering, Patterns

----------------------------------------------------------------------------
(* Who asks.                                                               *)

NoPolicy == [known |-> FALSE]

\* ParseBearer: the scheme's case does not matter, a blank token is none.
ParseBearer(header) == header.scheme = "bearer" /\ header.token # "blank"

\* The keys NewResolver enters in its map under a token.
ResolvingKeys(clientKeys, token) ==
    {i \in DOMAIN clientKeys :
        /\ clientKeys[i].active
        /\ clientKeys[i].secret # ""
        /\ clientKeys[i].secret = token}

\* A later key of the same secret replaces an earlier one.
ResolveBearer(clientKeys, token) ==
    LET keys == ResolvingKeys(clientKeys, token)
    IN  IF keys = {} THEN NoPolicy
        ELSE LET key == clientKeys[Max(keys)]
             IN  [ known           |-> TRUE,
                   patterns        |-> key.patterns,
                   allowStreaming  |-> key.allowStreaming,
                   allowTools      |-> key.allowTools,
                   allowVision     |-> key.allowVision,
                   allowStructured |-> key.allowStructured ]

----------------------------------------------------------------------------
(* What the endpoints offer.                                               *)

ValidatePublicSurface(req) ==
    IF \/ req.tools # <<>> /\ req.endpoint # "chat"
       \/ req.responseContract.kind \in {"json_object", "json_schema"}
    THEN "unsupported_capability" ELSE "none"

----------------------------------------------------------------------------
(* The schema subset.                                                      *)

unsupportedSchemaKeywords == {"oneOf", "anyOf", "allOf", "not", "patternProperties"}

\* Mutant: arrays are not looked into.
Walked_ObjectsOnly(schema) ==
    LET walked[i \in 0..Len(schema)] ==
            \/ i = 0
            \/ schema[i].kind = "object" /\ walked[schema[i].parent]
    IN  {i \in 0..Len(schema) : walked[i]}

\* The objects walkSchema is called for: members of a walked object, and
\* elements of an array that is one.  Arrays within arrays are not entered.
Walked(schema) ==
    LET walked[i \in 0..Len(schema)] ==
            \/ i = 0
            \/ /\ schema[i].kind = "object"
               /\ LET p == schema[i].parent
                  IN  \/ walked[p]
                      \/ p # 0 /\ schema[p].kind = "array" /\ walked[schema[p].parent]
    IN  {i \in 0..Len(schema) : walked[i]}

Refused(node) ==
    \/ node.key \in unsupportedSchemaKeywords
    \/ node.key = "additionalProperties" /\ node.kind # "false"

\* Every member of a walked object is looked at, whatever it stands for.
ValidateSchemaSubset(schema) ==
    \A i \in DOMAIN schema : schema[i].parent \in Walked(schema) => ~Refused(schema[i])

----------------------------------------------------------------------------
(* What the policy and the family allow.                                   *)

DefaultRegistry ==
    << [ pattern            |-> "openai/gpt-*",
         supportsVision     |-> TRUE,
         supportsStructured |-> TRUE,
         supportsTools      |-> TRUE ],
       [ pattern            |-> "anthropic/claude-*",
         supportsVision     |-> TRUE,
         supportsStructured |-> TRUE,
         supportsTools      |-> TRUE ] >>

MatchingProfiles(model) ==
    Gather(DefaultRegistry, LAMBDA p : Only(MatchesPattern(model, p.pattern), p))

ModelAllowed(policy, model) ==
    \/ policy.patterns = {}
    \/ \E p \in policy.patterns : MatchesPattern(model, p)

IsImage(block) == block.type = "image"

\* Mutant: only the last turn is looked at.
requiresVision_LastTurn(req) ==
    /\ req.conversation # <<>>
    /\ \E b \in ToSet(Last(req.conversation).content) : IsImage(b)

requiresVision(req) ==
    \E turn \in ToSet(req.conversation) : \E b \in ToSet(turn.content) : IsImage(b)

\* Every refusal is a plain error, which the handler calls an invalid request.
ValidateRequest(policy, req) ==
    LET profiles == MatchingProfiles(req.publicModel)
    IN  IF /\ profiles # <<>>
           /\ ModelAllowed(policy, req.publicModel)
           /\ req.stream => policy.allowStreaming
           /\ requiresVision(req) => policy.allowVision /\ profiles[1].supportsVision
           /\ req.tools # <<>> =>
                  /\ policy.allowTools
                  /\ profiles[1].supportsTools
                  /\ \A i \in DOMAIN req.tools : ValidateSchemaSubset(req.tools[i].schema)
           /\ req.responseContract.kind = "json_schema" =>
                  /\ policy.allowStructured
                  /\ profiles[1].supportsStructured
                  /\ ValidateSchemaSubset(req.responseContract.schema)
        THEN "none" ELSE "invalid_request"
=============================================================================
