--------------------------- MODULE ChainExpansion ---------------------------
(***************************************************************************)
(* Chains of workflow-chain packs expanded into a parent workflow            *)
(* (in-memory/src/workflow-chain-expansion.ts).  A fragment's nodes get a     *)
(* prefix of their own, what names them is rewritten, parameters are put in, *)
(* and the chain's compensation policy becomes the workflow's.               *)
(*                                                                           *)
(* A node's id is a prefix and a name, the prefix empty for the parent's own *)
(* nodes.  A string is the set of its parts: plain text, {{params.<name>}}   *)
(* tokens, the nodes.<id>. of references; none occurs twice.  The caller      *)
(* puts the fragment into the workflow.                                      *)
(***************************************************************************)
EXTENDS Integers, Sequences

CONSTANTS Registry,     \* packs: [kind, version, signature, chains (by id)]
          Asks,    \* what is asked for: [pack, version, chain, params]
          TypeIds,      \* types the host can resolve
          ParentNodes,  \* names of the workflow's own nodes
          ParentPolicies,
          MaxSplices    \* bound: expansions into one workflow

ASSUME ChainAssumption ==
  /\ MaxSplices \in Nat
  /\ \A q \in Asks : /\ {"pack", "version", "chain", "params"} \subseteq DOMAIN q
                    /\ \A name \in DOMAIN q.params : DOMAIN q.params[name] = {"structured", "parts"}

VARIABLES flow,    \* the workflow: its nodes, edges and policy
          spliced  \* history: the expansions that went into it

chainVars == <<flow, spliced>>

---------------------------------------------------------------------------
(* Strings *)

Text == [kind |-> "text", name |-> "", prefix |-> <<>>]
Param(name) == [kind |-> "param", name |-> name, prefix |-> <<>>]
Ref(name) == [kind |-> "ref", name |-> name, prefix |-> <<>>]

\* A parameter's value as it is, and as text: a structured one is a text of no
\* references; one that is missing is empty.
Nothing == [structured |-> FALSE, parts |-> {}]
Value(params, name) == IF name \in DOMAIN params THEN params[name] ELSE Nothing

AsText(value) == IF value.structured THEN {Text} ELSE value.parts

\* substitute: a string that is one token takes the value, others its text.
Substitute(parts, params) ==
  IF \E part \in parts : part.kind = "param" /\ parts = {part}
  THEN Value(params, (CHOOSE part \in parts : TRUE).name)
  ELSE [structured |-> FALSE,
        parts |-> UNION {IF part.kind = "param" THEN AsText(Value(params, part.name)) ELSE {part} : part \in parts}]

\* computePrefix: an expansion's own.
PrefixOf(chain, expansion) == <<chain, expansion>>

Names(chain) == {chain.nodes[i].id : i \in DOMAIN chain.nodes}

\* A wrong form: any name is taken for one of the fragment's.
RewrittenAlways(ref, chain, prefix) == [ref EXCEPT !.prefix = prefix]

\* rewriteEdgeRef: a name of the fragment becomes its copy's, another one (a node
\* of the parent) stays.
Rewritten(ref, chain, prefix) == IF ref.name \in Names(chain) THEN [ref EXCEPT !.prefix = prefix] ELSE ref

\* rewriteInputMappingRefs, through arrays and objects too.
RewriteInputMapping(value, chain, prefix) ==
  [value EXCEPT !.parts = {IF part.kind = "ref" THEN Rewritten(part, chain, prefix) ELSE part : part \in @}]

---------------------------------------------------------------------------
(* Expansion *)

\* expandChain and carryCompensation refuse: a type nobody knows, an inverse of
\* what has none, a policy other than the workflow's.
Unresolvable(chain) ==
  \E i \in DOMAIN chain.nodes : {chain.nodes[i].type, chain.nodes[i].inverse} \cap TypeIds # {chain.nodes[i].type, chain.nodes[i].inverse} \ {"none"}

Contradicts(chain) == \E i \in DOMAIN chain.nodes : chain.nodes[i].irreversible /\ chain.nodes[i].inverse # "none"

PolicyConflict(chain) == "none" \notin {chain.policy, flow.policy} /\ chain.policy # flow.policy

Copy(node, chain, prefix, params) ==
  [id |-> [prefix |-> prefix, name |-> node.id], type |-> node.type,
   config |-> Substitute(node.config, params), irreversible |-> node.irreversible,
   inverse |-> node.inverse,
   mapping |-> RewriteInputMapping(Substitute(node.mapping, params), chain, prefix)]

\* The fragment of a chain, with the compensation it carries.
Fragment(chain, prefix, params) ==
  [nodes |-> {Copy(chain.nodes[i], chain, prefix, params) : i \in DOMAIN chain.nodes},
   edges |-> {[from |-> Rewritten(e.from, chain, prefix), to |-> Rewritten(e.to, chain, prefix), rule |-> e.rule] : e \in chain.edges}]

\* expandChainFromRegistry: the pack is there, of the kind and version asked
\* for, its signature holds if it has one, and the chain is in it.
Found(q) ==
  /\ q.pack \in DOMAIN Registry
  /\ Registry[q.pack].kind = "workflow-chain" /\ Registry[q.pack].chains # <<>>
  /\ q.version \in {"any", Registry[q.pack].version}
  /\ Registry[q.pack].signature \in {"none", "good"}
  /\ q.chain \in DOMAIN Registry[q.pack].chains

ChainOf(q) == Registry[q.pack].chains[q.chain]

\* What is asked for names nodes of the chain or of the workflow, in edges,
\* mappings and parameters, and no two nodes of a chain have one name: nothing
\* in the expansion looks at it.
NamesNode(ref, chain) == \E name \in Names(chain) \cup ParentNodes : ref = Ref(name)

WellNamed(q) ==
  /\ \A e \in ChainOf(q).edges : NamesNode(e.from, ChainOf(q)) /\ NamesNode(e.to, ChainOf(q))
  /\ \A i, j \in DOMAIN ChainOf(q).nodes : ChainOf(q).nodes[i].id = ChainOf(q).nodes[j].id => i = j
  /\ \A i \in DOMAIN ChainOf(q).nodes : \A part \in ChainOf(q).nodes[i].mapping :
       part.kind = "ref" => NamesNode(part, ChainOf(q))
  /\ \A name \in DOMAIN q.params : \A part \in q.params[name].parts :
       part.kind = "ref" => NamesNode(part, ChainOf(q))

ASSUME ReferencesAssumption == \A q \in Asks : Found(q) => WellNamed(q)

Splice(fragment, policy, q) ==
  /\ flow' = [nodes |-> flow.nodes \cup fragment.nodes, edges |-> flow.edges \cup fragment.edges, policy |-> policy]
  /\ spliced' = Append(spliced, q)

\* expandChainWithCompensation
ExpandWithCompensation(q) ==
  /\ Len(spliced) < MaxSplices /\ Found(q)
  /\ LET chain == ChainOf(q)
     IN  /\ ~Contradicts(chain) /\ ~Unresolvable(chain) /\ ~PolicyConflict(chain)
         /\ Splice(Fragment(chain, PrefixOf(q.chain, Len(spliced)), q.params),
                   IF chain.policy = "none" THEN flow.policy ELSE chain.policy, q)

\* handleExpandWorkflowChain: expandChain alone, every type taken as known; what
\* the chain says of compensation is not carried.
Expand(q) ==
  /\ Len(spliced) < MaxSplices /\ Found(q)
  /\ LET fragment == Fragment(ChainOf(q), PrefixOf(q.chain, Len(spliced)), q.params)
         bare == {[n EXCEPT !.irreversible = FALSE, !.inverse = "none", !.mapping = Nothing] : n \in fragment.nodes}
     IN  Splice([fragment EXCEPT !.nodes = bare], flow.policy, [q EXCEPT !.chain = "none"])

ChainInit ==
  /\ \E policy \in ParentPolicies :
       flow = [nodes |-> {[id |-> [prefix |-> <<>>, name |-> n], type |-> "own", config |-> Nothing, irreversible |-> FALSE,
                           inverse |-> "none", mapping |-> Nothing] : n \in ParentNodes},
               edges |-> {}, policy |-> policy]
  /\ spliced = <<>>

ChainNext == \E q \in Asks : ExpandWithCompensation(q) \/ Expand(q)

ChainSpec == ChainInit /\ [][ChainNext]_chainVars

---------------------------------------------------------------------------
(* What is promised *)

Ids == {n.id : n \in flow.nodes}

IdOf(ref) == [prefix |-> ref.prefix, name |-> ref.name]

\* Nothing dangles: whatever chains went in, and however often, every edge joins
\* nodes of the workflow, every reference of a compensation names one, and no
\* copy has the id of another (rewriteEdgeRef, rewriteInputMappingRefs).
NothingDangles ==
  /\ \A e \in flow.edges : {IdOf(e.from), IdOf(e.to)} \subseteq Ids
  /\ \A n \in flow.nodes : \A part \in n.mapping.parts : part.kind = "ref" => IdOf(part) \in Ids
  /\ \A m, n \in flow.nodes : m.id = n.id => m = n

=============================================================================
